---- MODULE Spec2Model ----
(***************************************************************************)
(* Model of the MCP Intelligence core: the capability registry            *)
(* (ServerRegistry), the semantic router with its decision cache          *)
(* (SemanticRouter), the validation engine (ValidationEngine) and the     *)
(* top-level query pipeline (MCPIntelligence.query).                      *)
(*                                                                         *)
(* JavaScript Maps and Sets iterate in insertion order, and the code      *)
(* depends on it (candidate order, FIFO eviction), so they are modelled   *)
(* as sequences without duplicates.                                       *)
(***************************************************************************)
EXTENDS Integers, Sequences, FiniteSets, TLC

VARIABLES
    servers,         \* ServerRegistry.servers: registrations in Map insertion order
    domainIndex,     \* ServerRegistry.domainIndex: domain -> names, insertion order
    entityIndex,     \* ServerRegistry.entityIndex: entity -> names, insertion order
    operationIndex,  \* ServerRegistry.operationIndex: operation -> names
    fuzzySearch,     \* ServerRegistry.fuzzySearch: Undefined, or the indexed names
    healthTimer,     \* TRUE once startHealthChecks has installed the interval
    now,             \* the clock (Date.now()), in ms
    found,           \* what the findServersForIntent call just made returned
    lastOp,          \* ["register", name] right after register(name), else "other"
    routingCache,    \* SemanticRouter.routingCache: entries in Map insertion order
    routed,          \* what the route call just made produced
    rules,           \* ValidationEngine.rules: "server:action" -> rules, in push order
    customValidators,\* ValidationEngine.customValidators: server -> validator
    validated,       \* what the validateOperation call just made produced
    initialized,     \* MCPIntelligence.initialized
    interactions,    \* LearningSystem.interactions: the recorded history
    queried,         \* what the query call just made produced
    patterns,        \* LearningSystem.patterns: entries in Map insertion order
    serverPerformance, \* LearningSystem.serverPerformance: entries in insertion order
    learned,         \* the learning-system call just made, and what it returned
    resultChecked,   \* what the validateResult call just made returned
    ranking,         \* the rankServersByRelevance call just made, and its result
    selected,        \* the selectTool call just made, and the tool it returned
    lastIndex,       \* NLPProcessor.propertyPatterns.actions: each RegExp's lastIndex
    parsed,          \* the extractAction call just made, and the action it returned
    mcpServers,      \* MCPServerManager.servers and clients: the connected servers
    orchestratorInitialized, \* MCPOrchestrator.initialized: the event handlers are set
    routingTable,    \* Router.routingTable: entries in Map insertion order
    toolCache,       \* Cache.store of the orchestrator: key -> entry with its expiry
    toolCall,        \* the executeOnServer call in progress or just finished
    tableRouted      \* the Router.route call just made, and what it returned

registryVars == <<servers, domainIndex, entityIndex, operationIndex,
                  fuzzySearch, healthTimer, now>>

vars == <<servers, domainIndex, entityIndex, operationIndex,
          fuzzySearch, healthTimer, now, found, lastOp, routingCache, routed,
          rules, customValidators, validated, initialized, interactions, queried,
          patterns, serverPerformance, learned, resultChecked, ranking, selected,
          lastIndex, parsed, mcpServers, orchestratorInitialized, routingTable,
          toolCache, toolCall, tableRouted>>

----------------------------------------------------------------------------
(* Bounds of the model *)

\* the clock advances in steps of TickMs, MaxTicks times at most
MaxTicks == 1

\* initialize() runs at most this many times
MaxInitializations == 2

\* at most this many interactions are recorded
MaxInteractions == 1

\* the clock of the learning system runs for at most this many days
MaxDays == 8

\* at most this many interactions are recorded on the learning system directly
MaxRecords == 3

\* at most this many interactions are recorded while the sweep runs
MaxSweepRecords == 2

\* at most this many interactions are recorded while feedback is given
MaxFeedbackRecords == 2

\* the nearly full history starts with at most this many free slots, and at
\* most this many interactions are recorded into it
HistoryHeadroom == 1

MaxOverflow == 3

\* at most this many updateMetrics calls count in the metrics of the registry
MaxMetricUpdates == 1

\* at most this many rankServersByRelevance calls are made
MaxRankings == 2

\* at most this many decisions are cached while the order of entities and
\* filters varies
MaxCachedKeys == 3

\* the clock of the health checks runs to this many ms beyond the threshold
MaxLateMs == 1

\* the queries parsed have at most MaxWords words
MaxWords == 3

\* the nearly full cache starts with at most this many free slots
CacheHeadroom == 1

\* one step of the model's clock (ms): a step exceeds the health threshold
TickMs == 300001

(* Program constants *)

\* a registration is stale once now - lastHealthCheck exceeds this (ms)
HealthThresholdMs == 300000

\* ServerRegistry.fuzzySearch before the first updateFuzzySearch
Undefined == [built |-> FALSE, items |-> <<>>]

Names == {"A", "B"}

Domains == {"property", "maintenance"}
EntityTypes == {"work_order", "job"}
Operations == {"query", "create"}

\* ServerCapability values servers are registered with.  CapA and CapB are
\* the capabilities of the routing scenario.
CapA == [protocol |-> "soap", domains |-> <<"property">>,
         entities |-> <<"work_order">>, operations |-> <<"query", "create">>]
CapB == [protocol |-> "rest", domains |-> <<"maintenance">>,
         entities |-> <<"job">>, operations |-> <<"query">>]
Capabilities == {CapA, CapB}

ZeroMetrics == [totalRequests |-> 0,
                avgResponseTime |-> [n |-> 0, d |-> 1],
                errorRate |-> [n |-> 0, d |-> 1]]

\* Intents handed to the registry and the router.  An entity is
\* [type, value, role], a filter [field, operator, value]; "none" stands for
\* an absent context.domain, timeframe part or aggregation.
Ent(t, v) == [type |-> t, value |-> v, role |-> "object"]

NoTimeframe == [start |-> "none", end |-> "none", relative |-> "none"]

MkIntent(a, es, dom) ==
    [action |-> a, entities |-> es, filters |-> <<>>, domain |-> dom,
     timeframe |-> NoTimeframe, aggregation |-> "none"]

Intents ==
    { MkIntent("create", <<Ent("work_order", "")>>, "none"),
      MkIntent("create", <<Ent("job", "")>>, "none"),
      MkIntent("query", <<>>, "none"),
      MkIntent("query", <<Ent("job", "")>>, "maintenance"),
      MkIntent("delete", <<>>, "none") }

\* the intents routed, and the registrations made, while routing
RouterIntents ==
    { MkIntent("create", <<Ent("work_order", "")>>, "none"),
      MkIntent("create", <<Ent("job", "")>>, "none") }

RouterRegistrations == { <<"A", CapA>>, <<"B", CapB>>, <<"B", CapA>> }

----------------------------------------------------------------------------
(* Sequence helpers for insertion-ordered Maps and Sets *)

Range(s) == { s[i] : i \in 1..Len(s) }

SeqContains(s, x) == \E i \in 1..Len(s) : s[i] = x

\* Set.prototype.add: appends unless present
SetAdd(s, x) == IF SeqContains(s, x) THEN s ELSE Append(s, x)

\* Set.prototype.delete / Map.prototype.delete: removes, keeps the order
SetDelete(s, x) == SelectSeq(s, LAMBDA y : y # x)

RECURSIVE AddAll(_, _)
AddAll(s, xs) ==
    IF xs = <<>> THEN s ELSE AddAll(SetAdd(s, Head(xs)), Tail(xs))

\* JavaScript objects used as maps from field names to values
EmptyParams == [k \in {} |-> ""]

\* obj[k] = v
Put(obj, k, v) == [x \in DOMAIN obj \cup {k} |-> IF x = k THEN v ELSE obj[x]]

\* Array.prototype.join
RECURSIVE Join(_, _)
Join(strs, sep) ==
    IF strs = <<>> THEN ""
    ELSE IF Len(strs) = 1 THEN strs[1]
    ELSE strs[1] \o sep \o Join(Tail(strs), sep)

\* all orderings of a finite set, as sequences without duplicates
Perms(S) ==
    { p \in [1..Cardinality(S) -> S] : \A i, j \in 1..Cardinality(S) : p[i] = p[j] => i = j }

----------------------------------------------------------------------------
(* ServerRegistry *)

IsRegisteredIn(regs, name) == \E i \in 1..Len(regs) : regs[i].name = name

IsRegistered(name) == IsRegisteredIn(servers, name)

\* Map.get: the registration stored under name (only used when registered)
GetServer(name) == servers[CHOOSE i \in 1..Len(servers) : servers[i].name = name]

\* Map.set: replaces the value of an existing key in place, else appends
MapSet(regs, reg) ==
    IF \E i \in 1..Len(regs) : regs[i].name = reg.name
    THEN [i \in 1..Len(regs) |-> IF regs[i].name = reg.name THEN reg ELSE regs[i]]
    ELSE Append(regs, reg)

MapDelete(regs, name) == SelectSeq(regs, LAMBDA r : r.name # name)

\* updateIndices, one index: add name under every declared value
IndexAdd(index, values, name) ==
    [v \in DOMAIN index |->
        IF SeqContains(values, v) THEN SetAdd(index[v], name) ELSE index[v]]

\* unregister, one index: delete name under every declared value
IndexDelete(index, values, name) ==
    [v \in DOMAIN index |->
        IF SeqContains(values, v) THEN SetDelete(index[v], name) ELSE index[v]]

\* updateFuzzySearch: a new Fuse index over the current registrations
UpdateFuzzySearch(regs) ==
    [built |-> TRUE, items |-> [i \in 1..Len(regs) |-> regs[i].name]]

IndexGet(index, v) == IF v \in DOMAIN index THEN index[v] ELSE <<>>

EmptyIndex(values) == [v \in values |-> <<>>]

NewRegistration(name, capability) ==
    [name |-> name, capability |-> capability, status |-> "active",
     lastHealthCheck |-> now, metrics |-> ZeroMetrics]

\* lastOp tells a register call apart from every other operation
Op(op, name) ==
    IF op = "register" THEN [op |-> op, name |-> name] ELSE [op |-> "other", name |-> "none"]

\* `found` and `routed` hold the value returned by the call just made; after
\* any other operation they hold NoFind and NoRoute
NoFind == [intent |-> MkIntent("none", <<>>, "none"), kind |-> "none",
           fuzzy |-> FALSE, regs |-> <<>>]

NoDecision == [server |-> "none", tool |-> "none", params |-> EmptyParams,
               protocol |-> "none", confidence |-> [n |-> 0, d |-> 1],
               alternates |-> <<>>, reasoning |-> ""]

\* the details of a RoutingError: the intent they carry, if any
NoDetails == [hasIntent |-> FALSE, intent |-> MkIntent("none", <<>>, "none")]

NoRoute == [kind |-> "none", intent |-> MkIntent("none", <<>>, "none"),
            decision |-> NoDecision, hit |-> FALSE, lookup |-> FALSE, error |-> "",
            details |-> NoDetails]

\* a caller context: currentUser is a user or absent
NoUser == [present |-> FALSE, role |-> "none", permissions |-> {}]

NoValidation == [kind |-> "none", isValid |-> FALSE, errors |-> <<>>,
                 warnings |-> <<>>, suggestions |-> <<>>, rulesApplied |-> 0,
                 thrown |-> "none", action |-> "none", params |-> EmptyParams,
                 server |-> "none", context |-> NoUser]

NoCause == [stage |-> "none", type |-> "none", message |-> ""]

\* no query call made yet.  After a call, stages lists what the call invoked,
\* in order
NoQuery == [kind |-> "none", success |-> FALSE, error |-> "", hasIntent |-> FALSE,
            intent |-> MkIntent("none", <<>>, "none"), hasRouting |-> FALSE,
            hasData |-> FALSE, cause |-> NoCause, stages |-> <<>>]

\* no call made on the learning system yet.  After a call, saved tells whether
\* the call wrote the snapshot, and recorded counts the recordInteraction
\* calls made on the learning system so far
NoLearned == [op |-> "none", key |-> "", prediction |-> "none", applied |-> FALSE,
              preferred |-> "none", current |-> "none", saved |-> FALSE, recorded |-> 0]

\* no call made since n interactions were recorded
Learned(n) == [NoLearned EXCEPT !.recorded = n]

\* no rankServersByRelevance call made yet.  After a call, candidates is the
\* array handed in as it was before the call and after is the same array
\* after it; repeated tells that the call before had the same arguments, and
\* previous is then what that call returned
NoRanked == [called |-> FALSE, calls |-> 0, intent |-> MkIntent("none", <<>>, "none"),
             candidates |-> <<>>, after |-> <<>>, result |-> <<>>,
             repeated |-> FALSE, previous |-> <<>>]

\* no selectTool call made yet
NoSelected == [called |-> FALSE, operations |-> <<>>,
               intent |-> MkIntent("none", <<>>, "none"), tool |-> ""]

validationVars == <<rules, customValidators>>

pipelineVars == <<initialized, interactions>>

learningVars == <<patterns, serverPerformance>>

\* the outcomes of the calls made on the learning system, on validateResult
\* and on rankServersByRelevance
callVars == <<learned, resultChecked, ranking, selected>>

\* the state of the NLP processor
nlpVars == <<lastIndex, parsed>>

\* the state of the orchestrator, its server manager, its router and its cache
orchVars == <<mcpServers, orchestratorInitialized, routingTable, toolCache,
              toolCall, tableRouted>>

\* what a registry operation leaves alone outside the registry
RegistryOp(op, name) ==
    /\ lastOp' = Op(op, name)
    /\ found' = NoFind
    /\ routed' = NoRoute
    /\ validated' = NoValidation
    /\ queried' = NoQuery
    /\ UNCHANGED <<routingCache, validationVars, pipelineVars, learningVars, callVars, nlpVars, orchVars>>

\* initialize(): builds the fuzzy index and starts the health-check interval
Initialize ==
    /\ fuzzySearch' = UpdateFuzzySearch(servers)
    /\ healthTimer' = TRUE
    /\ UNCHANGED <<servers, domainIndex, entityIndex, operationIndex, now>>
    /\ RegistryOp("initialize", "none")

\* register(name, capability)
RegisterServers(name, capability) == MapSet(servers, NewRegistration(name, capability))

Register(name, capability) ==
    /\ servers' = RegisterServers(name, capability)
    /\ domainIndex' = IndexAdd(domainIndex, capability.domains, name)
    /\ entityIndex' = IndexAdd(entityIndex, capability.entities, name)
    /\ operationIndex' = IndexAdd(operationIndex, capability.operations, name)
    /\ fuzzySearch' = UpdateFuzzySearch(servers')
    /\ UNCHANGED <<healthTimer, now>>
    /\ RegistryOp("register", name)

\* unregister(serverName): a no-op for an unknown name; otherwise the name is
\* deleted under the values of the capability stored NOW, then from the Map
Unregister(name) ==
    /\ IF ~IsRegistered(name)
       THEN UNCHANGED registryVars
       ELSE LET capability == GetServer(name).capability IN
            /\ domainIndex' = IndexDelete(domainIndex, capability.domains, name)
            /\ entityIndex' = IndexDelete(entityIndex, capability.entities, name)
            /\ operationIndex' = IndexDelete(operationIndex, capability.operations, name)
            /\ servers' = MapDelete(servers, name)
            /\ fuzzySearch' = UpdateFuzzySearch(servers')
            /\ UNCHANGED <<healthTimer, now>>
    /\ RegistryOp("unregister", name)

\* the registrations with `name`'s registration (if any) replaced by Change(it)
UpdateServer(regs, name, Change(_)) ==
    [i \in 1..Len(regs) |-> IF regs[i].name = name THEN Change(regs[i]) ELSE regs[i]]

\* markHealthy(serverName): status active, lastHealthCheck refreshed
MarkHealthy(name) ==
    /\ servers' = UpdateServer(servers, name,
                     LAMBDA reg : [reg EXCEPT !.status = "active", !.lastHealthCheck = now])
    /\ UNCHANGED <<domainIndex, entityIndex, operationIndex, fuzzySearch,
                   healthTimer, now>>
    /\ RegistryOp("markHealthy", name)

\* markUnhealthy(serverName): status error, lastHealthCheck untouched
MarkUnhealthy(name) ==
    /\ servers' = UpdateServer(servers, name, LAMBDA reg : [reg EXCEPT !.status = "error"])
    /\ UNCHANGED <<domainIndex, entityIndex, operationIndex, fuzzySearch,
                   healthTimer, now>>
    /\ RegistryOp("markUnhealthy", name)

\* (mutant) a registration counted as stale at the threshold already
IsStaleAtThreshold(reg) == now - reg.lastHealthCheck >= HealthThresholdMs

\* the setInterval callback of startHealthChecks
IsStale(reg) == now - reg.lastHealthCheck > HealthThresholdMs

HealthSweep ==
    /\ healthTimer
    /\ servers' = [i \in 1..Len(servers) |->
                      IF IsStale(servers[i])
                      THEN [servers[i] EXCEPT !.status = "inactive"]
                      ELSE servers[i]]
    /\ UNCHANGED <<domainIndex, entityIndex, operationIndex, fuzzySearch,
                   healthTimer, now>>
    /\ RegistryOp("healthSweep", "none")

\* the clock advances
Tick ==
    /\ now < MaxTicks * TickMs
    /\ now' = now + TickMs
    /\ UNCHANGED <<servers, domainIndex, entityIndex, operationIndex,
                   fuzzySearch, healthTimer>>
    /\ RegistryOp("tick", "none")

\* time passes, to within a few ms of a multiple of the health threshold
\* and up to a little beyond the threshold
Elapse(ms) ==
    /\ now + ms <= HealthThresholdMs + MaxLateMs
    /\ (now + ms) % HealthThresholdMs <= MaxLateMs
    /\ now' = now + ms
    /\ UNCHANGED <<servers, domainIndex, entityIndex, operationIndex,
                   fuzzySearch, healthTimer>>
    /\ RegistryOp("elapse", "none")

----------------------------------------------------------------------------
(* findServersForIntent and the fuzzy fallback *)

\* fuzzyFindServers: the query is action, entity types, entity values joined by ' '
SearchTerms(intent) ==
    Join(<<intent.action>>
         \o [i \in 1..Len(intent.entities) |-> intent.entities[i].type]
         \o [i \in 1..Len(intent.entities) |-> intent.entities[i].value], " ")

\* Fuse gives score 0 to an indexed string equal to the pattern, so a server
\* whose name or declared domain, entity or operation equals the query is
\* always among the results.
ExactFuseMatch(reg, terms) ==
    \/ reg.name = terms
    \/ SeqContains(reg.capability.domains, terms)
    \/ SeqContains(reg.capability.entities, terms)
    \/ SeqContains(reg.capability.operations, terms)

\* The results Fuse may give for a query: every exact match, plus any of the
\* other indexed servers (approximate matches, and matches on the free-text
\* description, are not determined by the model), in any score order; the
\* items are the registrations themselves, read with their current status.
FuseSearch(terms) ==
    LET indexed == Range(fuzzySearch.items)
        must    == { n \in indexed : ExactFuseMatch(GetServer(n), terms) }
    IN  UNION { Perms(S) : S \in { T \in SUBSET indexed : must \subseteq T } }

FuzzyFindServers(intent) ==
    { [i \in 1..Len(p) |-> GetServer(p[i])] : p \in FuseSearch(SearchTerms(intent)) }

\* (mutant) candidates looked up through the entity index alone
CandidatesByEntityOnly(intent) ==
    LET RECURSIVE Go(_, _)
        Go(acc, es) ==
            IF es = <<>> THEN acc
            ELSE Go(AddAll(acc, IndexGet(entityIndex, Head(es).type)), Tail(es))
    IN  Go(<<>>, intent.entities)

\* candidates: names found through the entity, operation and domain indices,
\* a Set filled in that order
Candidates(intent) ==
    LET byEntity ==
            LET RECURSIVE Go(_, _)
                Go(acc, es) ==
                    IF es = <<>> THEN acc
                    ELSE Go(AddAll(acc, IndexGet(entityIndex, Head(es).type)), Tail(es))
            IN  Go(<<>>, intent.entities)
        byOperation == AddAll(byEntity, IndexGet(operationIndex, intent.action))
    IN  IF intent.domain # "none"
        THEN AddAll(byOperation, IndexGet(domainIndex, intent.domain))
        ELSE byOperation

\* .filter(reg => reg && reg.status === 'active')
KeepsRegistration(name) == IsRegistered(name) /\ GetServer(name).status = "active"

ExactRegistrations(intent) ==
    LET kept == SelectSeq(Candidates(intent), KeepsRegistration)
    IN  [i \in 1..Len(kept) |-> GetServer(kept[i])]

\* The outcomes of findServersForIntent(intent): the registrations returned,
\* or a TypeError when the fallback runs before any Fuse index was built.
FindServersForIntent(intent) ==
    LET registrations == ExactRegistrations(intent) IN
    IF registrations # <<>>
    THEN { [kind |-> "ok", fuzzy |-> FALSE, regs |-> registrations] }
    ELSE IF ~fuzzySearch.built
    THEN { [kind |-> "throw", fuzzy |-> TRUE, regs |-> <<>>] }
    ELSE { [kind |-> "ok", fuzzy |-> TRUE, regs |-> r] : r \in FuzzyFindServers(intent) }

\* a call of findServersForIntent, its outcome recorded in `found`
Find(intent) ==
    /\ \E out \in FindServersForIntent(intent) :
          found' = [intent |-> intent, kind |-> out.kind, fuzzy |-> out.fuzzy,
                    regs |-> out.regs]
    /\ lastOp' = Op("find", "none")
    /\ routed' = NoRoute
    /\ validated' = NoValidation
    /\ queried' = NoQuery
    /\ UNCHANGED <<registryVars, routingCache, validationVars, pipelineVars, learningVars, callVars, nlpVars, orchVars>>

----------------------------------------------------------------------------
(* Exact arithmetic on the metrics: a rational is [n, d] with d > 0 *)

Rat(n, d) == [n |-> n, d |-> d]

RatAdd(a, b) == Rat(a.n * b.d + b.n * a.d, a.d * b.d)

RatSub(a, b) == Rat(a.n * b.d - b.n * a.d, a.d * b.d)

RatMul(a, b) == Rat(a.n * b.n, a.d * b.d)

RatLess(a, b) == a.n * b.d < b.n * a.d

RatEq(a, b) == a.n * b.d = b.n * a.d

RatMin(a, b) == IF RatLess(b, a) THEN b ELSE a

RECURSIVE GCD(_, _)
GCD(a, b) == IF b = 0 THEN a ELSE GCD(b, a % b)

\* a rational in lowest terms, so that equal numbers are equal values
RatNorm(a) ==
    LET g == GCD(IF a.n < 0 THEN -a.n ELSE a.n, a.d)
    IN  Rat(a.n \div g, a.d \div g)

RatInt(i) == Rat(i, 1)

\* (mean * (count - 1) + sample) / count: the running mean the code keeps
RunningMean(mean, count, sample) ==
    RatNorm(Rat(mean.n * (count - 1) + sample * mean.d, mean.d * count))

Indicator(b) == IF b THEN 1 ELSE 0

----------------------------------------------------------------------------
(* rankServersByRelevance *)

\* intent.entities.filter(e => server.capability.entities.includes(e.type)).length
EntityMatches(reg, intent) ==
    Len(SelectSeq(intent.entities,
                  LAMBDA e : SeqContains(reg.capability.entities, e.type)))

OperationSupported(reg, intent) == SeqContains(reg.capability.operations, intent.action)

DomainMatches(reg, intent) ==
    intent.domain # "none" /\ SeqContains(reg.capability.domains, intent.domain)

\* score = 3*entityMatches + 5*[operation] + 4*[domain]
\*         - errorRate*2 - (avgResponseTime/1000)*0.5
Score(reg, intent) ==
    LET base == EntityMatches(reg, intent) * 3
                + (IF OperationSupported(reg, intent) THEN 5 ELSE 0)
                + (IF DomainMatches(reg, intent) THEN 4 ELSE 0)
        errorPenalty == RatMul(reg.metrics.errorRate, Rat(2, 1))
        timePenalty  == RatMul(reg.metrics.avgResponseTime, Rat(1, 2000))
    IN  RatSub(RatSub(Rat(base, 1), errorPenalty), timePenalty)

\* Array.prototype.sort with (a, b) => b.score - a.score: stable, descending
RECURSIVE InsertByScore(_, _, _)
InsertByScore(sorted, reg, intent) ==
    IF sorted = <<>> THEN <<reg>>
    ELSE IF RatLess(Score(Head(sorted), intent), Score(reg, intent))
    THEN <<reg>> \o sorted
    ELSE <<Head(sorted)>> \o InsertByScore(Tail(sorted), reg, intent)

RECURSIVE SortByScore(_, _, _)
SortByScore(sorted, rest, intent) ==
    IF rest = <<>> THEN sorted
    ELSE SortByScore(InsertByScore(sorted, Head(rest), intent), Tail(rest), intent)

RankServersByRelevance(regs, intent) == SortByScore(<<>>, regs, intent)

\* a call of rankServersByRelevance(servers, intent): the array handed in as
\* the call leaves it, and the array returned.  servers.map(...) makes a new
\* array, which is the one that is sorted.
RankInPlace(regs, intent) ==
    [candidates |-> RankServersByRelevance(regs, intent),
     result |-> RankServersByRelevance(regs, intent)]

RankCall(regs, intent) ==
    [candidates |-> regs, result |-> RankServersByRelevance(regs, intent)]

Rank(candidates, intent) ==
    LET call == RankCall(candidates, intent)
        repeated == /\ ranking.called
                    /\ ranking.intent = intent
                    /\ ranking.candidates = candidates
    IN  /\ ranking' = [called |-> TRUE, calls |-> ranking.calls + 1, intent |-> intent,
                       candidates |-> candidates, after |-> call.candidates,
                       result |-> call.result, repeated |-> repeated,
                       previous |-> IF repeated THEN ranking.result ELSE <<>>]
        /\ lastOp' = Op("rank", "none")
        /\ found' = NoFind
        /\ routed' = NoRoute
        /\ validated' = NoValidation
        /\ queried' = NoQuery
        /\ UNCHANGED <<registryVars, routingCache, validationVars, pipelineVars,
                       learningVars, learned, resultChecked, selected, nlpVars, orchVars>>

\* updateMetrics(serverName, requestTime, success), on the metrics of a server
UpdateMetricsOf(metrics, requestTime, success) ==
    [totalRequests |-> metrics.totalRequests + 1,
     avgResponseTime |-> RunningMean(metrics.avgResponseTime, metrics.totalRequests + 1,
                                     requestTime),
     errorRate |-> RunningMean(metrics.errorRate, metrics.totalRequests + 1,
                               Indicator(~success))]

\* the requests counted on the registrations
RECURSIVE SumRequests(_)
SumRequests(regs) ==
    IF regs = <<>> THEN 0 ELSE Head(regs).metrics.totalRequests + SumRequests(Tail(regs))

\* (mutant) an update of the metrics that counts as a health check
WithMetricsAndHealthCheck(reg, requestTime, success) ==
    [reg EXCEPT !.metrics = UpdateMetricsOf(@, requestTime, success),
                !.lastHealthCheck = now]

\* the registration after updateMetrics: server.metrics is rewritten, and
\* nothing else of the registration
WithMetrics(reg, requestTime, success) ==
    [reg EXCEPT !.metrics = UpdateMetricsOf(@, requestTime, success)]

UpdateMetrics(serverName, requestTime, success) ==
    /\ servers' = [i \in 1..Len(servers) |->
                       IF servers[i].name # serverName THEN servers[i]
                       ELSE WithMetrics(servers[i], requestTime, success)]
    /\ UNCHANGED <<domainIndex, entityIndex, operationIndex, fuzzySearch, healthTimer, now>>
    /\ RegistryOp("updateMetrics", serverName)

----------------------------------------------------------------------------
(* SemanticRouter *)

\* the routing cache holds at most this many decisions
MaxCacheSize == 1000

\* operationMap of selectTool
OperationMap ==
    [query   |-> <<"list", "get", "find", "search", "query">>,
     create  |-> <<"create", "add", "insert", "post">>,
     update  |-> <<"update", "modify", "patch", "put">>,
     delete  |-> <<"delete", "remove", "destroy">>,
     sync    |-> <<"sync", "synchronize", "replicate">>,
     analyze |-> <<"analyze", "aggregate", "report">>]

PossibleOps(action) ==
    IF action \in DOMAIN OperationMap THEN OperationMap[action] ELSE <<action>>

\* (mutant) the tool named after the operation alone
SelectToolWithoutEntity(reg, intent) ==
    LET ops == SelectSeq(PossibleOps(intent.action),
                         LAMBDA op : SeqContains(reg.capability.operations, op))
    IN  IF ops # <<>> THEN ops[1]
        ELSE IF reg.capability.operations # <<>>
             THEN reg.capability.operations[1]
             ELSE "query"

\* (mutant) the first operation the server declares that is a synonym
SelectToolFirstDeclared(reg, intent) ==
    LET ops == SelectSeq(reg.capability.operations,
                         LAMBDA op : SeqContains(PossibleOps(intent.action), op))
    IN  IF ops # <<>>
        THEN IF intent.entities # <<>>
             THEN ops[1] \o "_" \o intent.entities[1].type
             ELSE ops[1]
        ELSE IF reg.capability.operations # <<>>
             THEN reg.capability.operations[1]
             ELSE "query"

\* selectTool(server, intent)
SelectTool(reg, intent) ==
    LET ops == SelectSeq(PossibleOps(intent.action),
                         LAMBDA op : SeqContains(reg.capability.operations, op))
    IN  IF ops # <<>>
        THEN IF intent.entities # <<>>
             THEN ops[1] \o "_" \o intent.entities[1].type
             ELSE ops[1]
        ELSE IF reg.capability.operations # <<>>
             THEN reg.capability.operations[1]
             ELSE "query"

\* a call of selectTool(server, intent)
Select(reg, intent) ==
    /\ selected' = [called |-> TRUE, operations |-> reg.capability.operations,
                    intent |-> intent, tool |-> SelectTool(reg, intent)]
    /\ lastOp' = Op("selectTool", "none")
    /\ found' = NoFind
    /\ routed' = NoRoute
    /\ validated' = NoValidation
    /\ queried' = NoQuery
    /\ UNCHANGED <<registryVars, routingCache, validationVars, pipelineVars,
                   learningVars, learned, resultChecked, ranking, nlpVars, orchVars>>

\* Date.prototype.toISOString
ToISOString(date) == "iso:" \o date

RECURSIVE PutFilters(_, _)
PutFilters(params, filters) ==
    IF filters = <<>> THEN params
    ELSE PutFilters(Put(params, Head(filters).field, Head(filters).value), Tail(filters))

RECURSIVE PutFilterEntities(_, _)
PutFilterEntities(params, entities) ==
    IF entities = <<>> THEN params
    ELSE PutFilterEntities(
             IF Head(entities).role = "filter"
             THEN Put(params, Head(entities).type, Head(entities).value)
             ELSE params,
             Tail(entities))

\* buildParameters(intent)
BuildParameters(intent) ==
    LET p1 == PutFilters(EmptyParams, intent.filters)
        p2 == PutFilterEntities(p1, intent.entities)
        p3 == IF intent.timeframe.start # "none"
              THEN Put(p2, "startDate", ToISOString(intent.timeframe.start)) ELSE p2
        p4 == IF intent.timeframe.end # "none"
              THEN Put(p3, "endDate", ToISOString(intent.timeframe.end)) ELSE p3
        p5 == IF intent.timeframe.relative # "none"
              THEN Put(p4, "timeframe", intent.timeframe.relative) ELSE p4
    IN  IF intent.aggregation # "none"
        THEN Put(p5, "aggregation", intent.aggregation) ELSE p5

Max(a, b) == IF a > b THEN a ELSE b

\* calculateRoutingConfidence(server, intent)
CalculateRoutingConfidence(reg, intent) ==
    LET entityPart == Rat(EntityMatches(reg, intent), Max(Len(intent.entities), 1) * 5)
        opPart     == IF OperationSupported(reg, intent) THEN Rat(1, 5) ELSE Rat(0, 1)
        health     == RatMul(RatSub(Rat(1, 1), reg.metrics.errorRate), Rat(1, 10))
        sum        == RatAdd(RatAdd(RatAdd(Rat(1, 2), entityPart), opPart), health)
    IN  RatMin(sum, Rat(1, 1))

\* generateRoutingReasoning(server, intent)
GenerateRoutingReasoning(reg, intent) ==
    LET supported == SelectSeq(intent.entities,
                               LAMBDA e : SeqContains(reg.capability.entities, e.type))
        types == [i \in 1..Len(supported) |-> supported[i].type]
        r1 == IF supported # <<>>
              THEN <<"Supports entities: " \o Join(types, ", ")>> ELSE <<>>
        r2 == IF OperationSupported(reg, intent)
              THEN <<"Can perform " \o intent.action \o " operations">> ELSE <<>>
        r3 == IF DomainMatches(reg, intent)
              THEN <<"Specializes in " \o intent.domain>> ELSE <<>>
        r4 == IF RatLess(reg.metrics.avgResponseTime, Rat(1000, 1))
              THEN <<"Fast response time">> ELSE <<>>
    IN  Join(r1 \o r2 \o r3 \o r4, "; ")

\* (mutant) a key that tells the domains of two intents apart
GetCacheKeyWithDomain(intent) ==
    Join(<<intent.action, intent.domain>>
         \o [i \in 1..Len(intent.entities) |->
                intent.entities[i].type \o ":" \o intent.entities[i].value]
         \o [i \in 1..Len(intent.filters) |->
                intent.filters[i].field \o ":" \o intent.filters[i].operator
                \o ":" \o intent.filters[i].value],
         "|")

\* getCacheKey(intent)
GetCacheKey(intent) ==
    Join(<<intent.action>>
         \o [i \in 1..Len(intent.entities) |->
                intent.entities[i].type \o ":" \o intent.entities[i].value]
         \o [i \in 1..Len(intent.filters) |->
                intent.filters[i].field \o ":" \o intent.filters[i].operator
                \o ":" \o intent.filters[i].value],
         "|")

\* Map.has / Map.get / Map.set on the routing cache
CacheHas(cache, key) == \E i \in 1..Len(cache) : cache[i].key = key

CacheGet(cache, key) == cache[CHOOSE i \in 1..Len(cache) : cache[i].key = key].decision

CacheSet(cache, key, decision) ==
    IF CacheHas(cache, key)
    THEN [i \in 1..Len(cache) |->
             IF cache[i].key = key THEN [key |-> key, decision |-> decision] ELSE cache[i]]
    ELSE Append(cache, [key |-> key, decision |-> decision])

\* (mutant) a cleaning that deletes the key inserted last
CleanCacheNewest(cache) ==
    IF Len(cache) > MaxCacheSize THEN SubSeq(cache, 1, Len(cache) - 1) ELSE cache

\* "Clean cache if too large": delete the first key of the Map
CleanCache(cache) == IF Len(cache) > MaxCacheSize THEN Tail(cache) ELSE cache

\* the decision route builds from the ranked candidates
BuildDecision(ranked, intent) ==
    LET bestServer == ranked[1]
        params == BuildParameters(intent)
        others == SubSeq(ranked, 2, IF Len(ranked) < 3 THEN Len(ranked) ELSE 3)
    IN  [server     |-> bestServer.name,
         tool       |-> SelectTool(bestServer, intent),
         params     |-> params,
         protocol   |-> bestServer.capability.protocol,
         confidence |-> CalculateRoutingConfidence(bestServer, intent),
         alternates |-> [i \in 1..Len(others) |->
                            [server     |-> others[i].name,
                             tool       |-> SelectTool(others[i], intent),
                             params     |-> params,
                             protocol   |-> others[i].capability.protocol,
                             confidence |-> CalculateRoutingConfidence(others[i], intent)]],
         reasoning  |-> GenerateRoutingReasoning(bestServer, intent)]

\* (mutant) a router that never answers from the cache
NeverUsesCache(cache, key) == FALSE

\* "Check cache first": whether route answers from the cache
UsesCache(cache, key) == CacheHas(cache, key)

\* (mutant) a failure that is reported with the message alone
RouteErrorBare(intent, message) ==
    [kind |-> "RoutingError", intent |-> intent, decision |-> NoDecision,
     hit |-> FALSE, lookup |-> TRUE, error |-> "Failed to route intent: " \o message,
     details |-> NoDetails]

\* the catch clause of route: new RoutingError(message, { intent, error })
RouteError(intent, message) ==
    [kind |-> "RoutingError", intent |-> intent, decision |-> NoDecision,
     hit |-> FALSE, lookup |-> TRUE, error |-> "Failed to route intent: " \o message,
     details |-> [hasIntent |-> TRUE, intent |-> intent]]

\* route(intent): the outcomes of a call, each the decision returned or the
\* RoutingError thrown, together with the cache the call leaves
RouteOutcomes(intent) ==
    LET cacheKey == GetCacheKey(intent) IN
    IF UsesCache(routingCache, cacheKey)
    THEN { [routed |-> [kind |-> "decision", intent |-> intent,
                        decision |-> CacheGet(routingCache, cacheKey),
                        hit |-> TRUE, lookup |-> FALSE, error |-> "",
                        details |-> NoDetails],
            cache |-> routingCache] }
    ELSE { IF out.kind = "throw"
           THEN [routed |-> RouteError(intent,
                               "Cannot read properties of undefined (reading 'search')"),
                 cache |-> routingCache]
           ELSE IF out.regs = <<>>
           THEN [routed |-> RouteError(intent, "No servers found for intent"),
                 cache |-> routingCache]
           ELSE LET decision == BuildDecision(RankServersByRelevance(out.regs, intent),
                                              intent)
                IN  [routed |-> [kind |-> "decision", intent |-> intent,
                                 decision |-> decision, hit |-> FALSE,
                                 lookup |-> TRUE, error |-> "", details |-> NoDetails],
                     cache |-> CleanCache(CacheSet(routingCache, cacheKey, decision))]
           : out \in FindServersForIntent(intent) }

Route(intent) ==
    /\ \E out \in RouteOutcomes(intent) :
          /\ routed' = out.routed
          /\ routingCache' = out.cache
    /\ lastOp' = Op("route", "none")
    /\ found' = NoFind
    /\ validated' = NoValidation
    /\ queried' = NoQuery
    /\ UNCHANGED <<registryVars, validationVars, pipelineVars, learningVars, callVars, nlpVars, orchVars>>

\* clearCache()
ClearCache ==
    /\ routingCache' = <<>>
    /\ lastOp' = Op("clearCache", "none")
    /\ found' = NoFind
    /\ routed' = NoRoute
    /\ validated' = NoValidation
    /\ queried' = NoQuery
    /\ UNCHANGED <<registryVars, validationVars, pipelineVars, learningVars, callVars, nlpVars, orchVars>>

----------------------------------------------------------------------------
(* ValidationEngine *)

\* the servers decisions are validated for
ValidatedServers == {"A", "B", "propertyware"}

ValidatedActions == {"query", "create", "update", "delete"}

RuleKey(server, action) == server \o ":" \o action

RuleKeys == { RuleKey(s, a) : s \in ValidatedServers \cup {"*", "servicefusion"},
                              a \in ValidatedActions }

\* a JavaScript value read as a condition: a field that is absent or holds
\* the empty string is falsy
Truthy(obj, k) == k \in DOMAIN obj /\ obj[k] # ""

\* the priorities the work order rule accepts
ValidPriorities == {"emergency", "high", "medium", "low"}

\* the condition functions of the rules the engine loads.  A work order
\* nested in the data is held as the value of its priority
RuleHolds(id, data) ==
    CASE id = "require-data"          -> DOMAIN data # {}
      [] id = "require-id"            -> Truthy(data, "id") \/ Truthy(data, "_id")
      [] id = "pw-portfolio-required" -> Truthy(data, "portfolioId") \/ Truthy(data, "portfolio")
      [] id = "sf-customer-required"  -> Truthy(data, "customerId") \/ Truthy(data, "customer")
      [] id = "wo-priority-valid"     ->
             IF Truthy(data, "work_order") THEN data.work_order \in ValidPriorities
             ELSE IF Truthy(data, "workOrder") THEN data.workOrder \in ValidPriorities
             ELSE TRUE
      [] OTHER                        -> TRUE

Rule(id, message, severity) == [id |-> id, message |-> message, severity |-> severity]

\* addRule(server, action, rule)
AddRule(rs, server, action, rule) ==
    [rs EXCEPT ![RuleKey(server, action)] = Append(@, rule)]

\* loadDefaultRules
LoadDefaultRules(rs) ==
    AddRule(AddRule(rs, "*", "create",
                    Rule("require-data", "Create operation requires data", "error")),
            "*", "update", Rule("require-id", "Update operation requires an ID", "error"))

\* loadPropertyManagementRules
LoadPropertyManagementRules(rs) ==
    AddRule(AddRule(AddRule(rs, "propertyware", "create",
                            Rule("pw-portfolio-required",
                                 "PropertyWare operations require a portfolio", "error")),
                    "servicefusion", "create",
                    Rule("sf-customer-required",
                         "ServiceFusion jobs require a customer", "error")),
            "*", "create", Rule("wo-priority-valid", "Invalid work order priority", "error"))

\* ValidationEngine.initialize
ValidationInitialize(rs) == LoadPropertyManagementRules(LoadDefaultRules(rs))

\* /(\bDROP\b|\bDELETE\b|\bUNION\b|\bSELECT\b.*\bFROM\b)/i on the model's values
Suspicious(value) == value \in {"drop table jobs"}

\* validateParameters(params, intent); no parameter object of the model
\* reaches the 100000 characters of the size warning
ValidateParameters(params, intent) ==
    LET required ==
            CASE intent.action = "create" ->
                     IF DOMAIN params = {}
                     THEN <<"Create operation requires data">> ELSE <<>>
              [] intent.action = "update" ->
                     IF ~Truthy(params, "id")
                     THEN <<"Update operation requires an ID">> ELSE <<>>
              [] intent.action = "delete" ->
                     IF ~Truthy(params, "id")
                     THEN <<"Delete operation requires an ID">> ELSE <<>>
              [] OTHER -> <<>>
        keys == CHOOSE p \in Perms(DOMAIN params) : TRUE
        malicious == SelectSeq(keys, LAMBDA k : Suspicious(params[k]))
    IN  [errors   |-> required \o [i \in 1..Len(malicious) |->
                                      "Potentially malicious input detected"],
         warnings |-> <<>>]

\* requiredPermissions of validatePermissions
RequiredPermissions(action) ==
    CASE action \in {"create", "update"} -> {"write", "admin"}
      [] action \in {"delete", "sync"}   -> {"admin"}
      [] action = "query"                -> {"read", "write", "admin"}
      [] OTHER                           -> {"admin"}

\* validatePermissions without the role test of hasPermission
ValidatePermissionsByPermissionOnly(user, action, server) ==
    (IF RequiredPermissions(action) \cap user.permissions = {}
     THEN <<"User lacks permission for " \o action \o " operation">> ELSE <<>>)
    \o (IF server = "propertyware" /\ user.role = "tenant"
        THEN <<"Tenants cannot access PropertyWare directly">> ELSE <<>>)

\* validatePermissions(user, action, server)
ValidatePermissions(user, action, server) ==
    LET hasPermission ==
            \E perm \in RequiredPermissions(action) :
                perm \in user.permissions \/ user.role = "admin"
    IN  (IF ~hasPermission
         THEN <<"User lacks permission for " \o action \o " operation">> ELSE <<>>)
        \o (IF server = "propertyware" /\ user.role = "tenant"
            THEN <<"Tenants cannot access PropertyWare directly">> ELSE <<>>)

\* a currentUser: its role and the permissions it holds
User(role, permissions) == [present |-> TRUE, role |-> role, permissions |-> permissions]

\* a custom validator: what it does when called
NoValidator == [registered |-> FALSE, outcome |-> "none", errors |-> <<>>,
                warnings |-> <<>>, suggestions |-> <<>>]

Validator(outcome, errors, warnings, suggestions) ==
    [registered |-> TRUE, outcome |-> outcome, errors |-> errors,
     warnings |-> warnings, suggestions |-> suggestions]

\* validators that return findings, and validators that throw an Error or
\* reject with undefined
Validators ==
    { Validator("returns", <<>>, <<>>, <<>>),
      Validator("returns", <<"custom error">>, <<"custom warning">>, <<"custom hint">>),
      Validator("throwsError", <<>>, <<>>, <<>>),
      Validator("throwsUndefined", <<>>, <<>>, <<>>) }

\* the findings of the business rules stored under one key
RuleFindings(ruleList, params, severity) ==
    LET failing == SelectSeq(ruleList,
                             LAMBDA r : ~RuleHolds(r.id, params) /\ r.severity = severity)
    IN  [i \in 1..Len(failing) |-> failing[i].message]

\* (mutant) a permission check made for every caller
ChecksPermissionsAlways(user) == TRUE

\* "Check permissions": if (context?.currentUser)
ChecksPermissions(user) == user.present

\* validateOperation(routing, intent, context): the ValidationResult returned,
\* or what the custom validator threw; the outcome is kept with the action,
\* the server and the params the call was made with, and with metadata.context
ValidateOperation(routing, intent, user) ==
    LET paramValidation == ValidateParameters(routing.params, intent)
        permissionErrors ==
            IF ChecksPermissions(user)
            THEN ValidatePermissions(user, intent.action, routing.server) ELSE <<>>
        key == RuleKey(routing.server, intent.action)
        businessRules == IF key \in DOMAIN rules THEN rules[key] ELSE <<>>
        errors == paramValidation.errors \o permissionErrors
                  \o RuleFindings(businessRules, routing.params, "error")
        warnings == paramValidation.warnings
                    \o RuleFindings(businessRules, routing.params, "warning")
        customValidator ==
            IF routing.server \in DOMAIN customValidators
            THEN customValidators[routing.server] ELSE NoValidator
    IN  IF customValidator.registered /\ customValidator.outcome # "returns"
        THEN [kind |-> "throws", isValid |-> FALSE, errors |-> <<>>, warnings |-> <<>>,
              suggestions |-> <<>>, rulesApplied |-> 0, thrown |-> customValidator.outcome,
              action |-> intent.action, params |-> routing.params,
              server |-> routing.server, context |-> user]
        ELSE [kind |-> "returns",
              isValid |-> errors \o customValidator.errors = <<>>,
              errors |-> errors \o customValidator.errors,
              warnings |-> warnings \o customValidator.warnings,
              suggestions |-> customValidator.suggestions,
              rulesApplied |-> Len(businessRules),
              thrown |-> "none",
              action |-> intent.action, params |-> routing.params,
              server |-> routing.server, context |-> user]

\* Results of an execution.  A result is undefined, an object or an array of
\* objects; an object may carry an id, an _id, and the nested objects
\* work_order, lease and unit.  "" and 0 stand for an absent (falsy) field.
NoWorkOrder == [present |-> FALSE, priority |-> "", vendor |-> "", status |-> "",
                completedDate |-> ""]

NoLease == [present |-> FALSE, startDate |-> 0, endDate |-> 0, rentAmount |-> 0]

NoUnit == [present |-> FALSE, status |-> "", tenantId |-> ""]

EmptyObject == [id |-> "", _id |-> "", work_order |-> NoWorkOrder, lease |-> NoLease,
                unit |-> NoUnit]

UndefinedResult == [kind |-> "undefined", obj |-> EmptyObject, items |-> <<>>]

ObjectResult(obj) == [kind |-> "object", obj |-> obj, items |-> <<>>]

ArrayResult(items) == [kind |-> "array", obj |-> EmptyObject, items |-> items]

\* !item.id && !item._id
LacksIdentifier(obj) == obj.id = "" /\ obj._id = ""

\* isPropertyManagementData(data): the JSON text of the data holds one of the
\* property-management words; in the model's results only the keys of the
\* nested objects do
HasPmWord(obj) == obj.work_order.present \/ obj.lease.present \/ obj.unit.present

IsPropertyManagementData(result) ==
    CASE result.kind = "undefined" -> FALSE
      [] result.kind = "object"    -> HasPmWord(result.obj)
      [] OTHER -> \E i \in 1..Len(result.items) : HasPmWord(result.items[i])

\* validatePropertyManagementData(data); an array has none of the properties
\* work_order, lease and unit
ValidatePropertyManagementData(result) ==
    IF result.kind # "object" THEN [errors |-> <<>>, warnings |-> <<>>]
    ELSE
    LET wo == result.obj.work_order
        lease == result.obj.lease
        unit == result.obj.unit
    IN  [errors |->
            (IF wo.present /\ wo.status = "completed" /\ wo.completedDate = ""
             THEN <<"Completed work order must have a completion date">> ELSE <<>>)
            \o (IF lease.present /\ lease.endDate # 0 /\ lease.startDate # 0
                   /\ lease.endDate <= lease.startDate
                THEN <<"Lease end date must be after start date">> ELSE <<>>)
            \o (IF lease.present /\ lease.rentAmount # 0 /\ lease.rentAmount <= 0
                THEN <<"Rent amount must be positive">> ELSE <<>>)
            \o (IF unit.present /\ unit.status = "vacant" /\ unit.tenantId # ""
                THEN <<"Vacant unit cannot have a tenant">> ELSE <<>>),
         warnings |->
            (IF wo.present /\ wo.priority = "emergency" /\ wo.vendor = ""
             THEN <<"Emergency work order should have a vendor assigned">> ELSE <<>>)
            \o (IF unit.present /\ unit.status = "occupied" /\ unit.tenantId = ""
                THEN <<"Occupied unit should have a tenant">> ELSE <<>>)]

\* the warnings of the forEach over a query's array result, from item `from` on
RECURSIVE ItemWarnings(_, _)
ItemWarnings(items, from) ==
    IF from > Len(items) THEN <<>>
    ELSE (IF LacksIdentifier(items[from])
          THEN <<"Result item " \o ToString(from - 1) \o " missing identifier">>
          ELSE <<>>)
         \o ItemWarnings(items, from + 1)

AcceptsAnyResult(result) == FALSE

\* !result || (!result.id && !result._id); an array has neither property

MissesIdentifier(result) ==
    CASE result.kind = "undefined" -> TRUE
      [] result.kind = "object"    -> LacksIdentifier(result.obj)
      [] OTHER                     -> TRUE

\* validateResult(result, intent)
ValidateResult(result, intent) ==
    LET queryWarnings ==
            IF intent.action = "query" /\ result.kind = "array"
            THEN (IF result.items = <<>> THEN <<"Query returned no results">> ELSE <<>>)
                 \o ItemWarnings(result.items, 1)
            ELSE <<>>
        typeErrors ==
            IF intent.action \in {"create", "update"} /\ MissesIdentifier(result)
            THEN <<"Operation did not return a valid identifier">> ELSE <<>>
        pm == IF IsPropertyManagementData(result)
              THEN ValidatePropertyManagementData(result)
              ELSE [errors |-> <<>>, warnings |-> <<>>]
    IN  [kind |-> "returns", action |-> intent.action, result |-> result,
         isValid |-> typeErrors \o pm.errors = <<>>,
         errors |-> typeErrors \o pm.errors,
         warnings |-> queryWarnings \o pm.warnings]

NoResultCheck == [kind |-> "none", action |-> "none", result |-> UndefinedResult,
                  isValid |-> FALSE, errors |-> <<>>, warnings |-> <<>>]

\* a call of validateResult
CheckResult(result, intent) ==
    /\ resultChecked' = ValidateResult(result, intent)
    /\ validated' = NoValidation
    /\ lastOp' = Op("validation", "none")
    /\ found' = NoFind
    /\ routed' = NoRoute
    /\ queried' = NoQuery
    /\ UNCHANGED <<registryVars, routingCache, validationVars, pipelineVars,
                   learningVars, learned, ranking, selected, nlpVars, orchVars>>

\* what an operation of the validation engine leaves alone
ValidationOp ==
    /\ lastOp' = Op("validation", "none")
    /\ found' = NoFind
    /\ routed' = NoRoute
    /\ queried' = NoQuery
    /\ resultChecked' = NoResultCheck
    /\ UNCHANGED <<registryVars, routingCache, pipelineVars, learningVars, learned, ranking,
                   selected, nlpVars, orchVars>>

\* ValidationEngine.initialize(), which may be called again
InitializeValidation ==
    /\ Len(rules[RuleKey("*", "create")]) < 2 * MaxInitializations
    /\ rules' = ValidationInitialize(rules)
    /\ validated' = NoValidation
    /\ UNCHANGED customValidators
    /\ ValidationOp

\* registerValidator(server, validator)
RegisterValidator(server, validator) ==
    /\ customValidators' = [customValidators EXCEPT ![server] = validator]
    /\ validated' = NoValidation
    /\ UNCHANGED rules
    /\ ValidationOp

\* a call of validateOperation
Validate(routing, intent, user) ==
    /\ validated' = ValidateOperation(routing, intent, user)
    /\ UNCHANGED <<rules, customValidators>>
    /\ ValidationOp

----------------------------------------------------------------------------
(* LearningSystem *)

\* the default of the constructor's maxHistorySize
MaxHistorySize == 1000

\* 7 * 24 * 60 * 60 * 1000: the age (ms) beyond which the sweep may prune
PruneAgeMs == 604800000

\* the sweep keeps every pattern of at least this frequency
PruneFrequency == 5

\* 24 * 60 * 60 * 1000
DayMs == 86400000

\* predictBestServer predicts only above a successRate of 0.8
PredictionThreshold == Rat(8, 10)

\* the step added to the errorRate of a server the user rejected: 0.1
ErrorRateStep == Rat(1, 10)

\* recordInteraction saves when the length of the history is a multiple of 10
SaveEvery == 10

\* Array.prototype.sort on the entity types of the model
TypeOrder == <<"job", "work_order">>

RECURSIVE SortTypes(_, _)
SortTypes(entities, order) ==
    IF order = <<>> THEN <<>>
    ELSE [i \in 1..Len(SelectSeq(entities, LAMBDA e : e.type = Head(order))) |-> Head(order)]
         \o SortTypes(entities, Tail(order))

\* getPatternKey(intent)
GetPatternKey(intent) ==
    LET relative == IF intent.timeframe.relative = "none" THEN ""
                    ELSE intent.timeframe.relative
        parts == <<intent.action>> \o SortTypes(intent.entities, TypeOrder) \o <<relative>>
    IN  Join(SelectSeq(parts, LAMBDA x : x # ""), ":")

NoFeedback == [given |-> FALSE, helpful |-> TRUE, correctServer |-> ""]

Feedback(helpful, correctServer) ==
    [given |-> TRUE, helpful |-> helpful, correctServer |-> correctServer]

\* a LearningInteraction: the query text, the intent, routing.server, the
\* duration, validation.isValid, and the timestamp and feedback set later
Interaction(query, intent, server, duration, valid) ==
    [query |-> query, intent |-> intent, server |-> server, duration |-> duration,
     valid |-> valid, timestamp |-> 0, feedback |-> NoFeedback]

\* recordInteraction: the timestamp, the push and the trim of the history
KeepOldest(history) ==
    IF Len(history) > MaxHistorySize THEN SubSeq(history, 1, MaxHistorySize) ELSE history

KeepNewest(history) ==
    IF Len(history) > MaxHistorySize
    THEN SubSeq(history, Len(history) - MaxHistorySize + 1, Len(history))
    ELSE history

RecordHistory(history, interaction, time) ==
    KeepNewest(Append(history, [interaction EXCEPT !.timestamp = time]))

KeyIndex(entries, key) ==
    IF \E i \in 1..Len(entries) : entries[i].key = key
    THEN CHOOSE i \in 1..Len(entries) : entries[i].key = key
    ELSE 0

HasKey(entries, key) == KeyIndex(entries, key) # 0

NewPattern(key, query, time) ==
    [key |-> key, pattern |-> query, frequency |-> 0, avgDuration |-> RatInt(0),
     successRate |-> RatInt(0), lastUsed |-> time]

\* the successRate a pattern gets from a further interaction
NextSuccessRateForgetful(pattern, valid) == RatInt(Indicator(valid))

NextSuccessRate(pattern, valid) ==
    RunningMean(pattern.successRate, pattern.frequency + 1, Indicator(valid))

\* the frequency a pattern gets from a further interaction
NextFrequencyRestarted(pattern) == 1

NextFrequency(pattern) == pattern.frequency + 1

\* updatePatterns(interaction)
UpdatePatterns(ps, interaction, time) ==
    LET key == GetPatternKey(interaction.intent)
        all == IF HasKey(ps, key) THEN ps
               ELSE Append(ps, NewPattern(key, interaction.query, time))
    IN  [i \in 1..Len(all) |->
            IF all[i].key # key THEN all[i]
            ELSE [all[i] EXCEPT
                     !.frequency = NextFrequency(all[i]),
                     !.avgDuration = RunningMean(@, all[i].frequency + 1,
                                                 interaction.duration),
                     !.successRate = NextSuccessRate(all[i], interaction.valid),
                     !.lastUsed = time]]

NewPerformance(server) ==
    [key |-> server, totalRequests |-> 0, successfulRequests |-> 0,
     avgResponseTime |-> RatInt(0), errorRate |-> RatInt(0), patterns |-> <<>>]

\* the per-pattern statistics of one server
UpdatePatternPerformance(pps, key, valid) ==
    LET all == IF HasKey(pps, key) THEN pps
               ELSE Append(pps, [key |-> key, count |-> 0, successRate |-> RatInt(0)])
    IN  [i \in 1..Len(all) |->
            IF all[i].key # key THEN all[i]
            ELSE [all[i] EXCEPT
                     !.count = @ + 1,
                     !.successRate = RunningMean(@, all[i].count + 1, Indicator(valid))]]

\* (mutant) an errorRate kept as a running mean of the failures, which
\* carries on from whatever the errorRate was
UpdateServerPerformanceIncremental(sp, interaction) ==
    LET server == interaction.server
        all == IF HasKey(sp, server) THEN sp ELSE Append(sp, NewPerformance(server))
    IN  [i \in 1..Len(all) |->
            IF all[i].key # server THEN all[i]
            ELSE LET total == all[i].totalRequests + 1
                     successful == all[i].successfulRequests + Indicator(interaction.valid)
                 IN  [all[i] EXCEPT
                         !.totalRequests = total,
                         !.successfulRequests = successful,
                         !.avgResponseTime = RunningMean(@, total, interaction.duration),
                         !.errorRate = RunningMean(@, total, Indicator(~interaction.valid)),
                         !.patterns = UpdatePatternPerformance(
                                          @, GetPatternKey(interaction.intent),
                                          interaction.valid)]]

\* updateServerPerformance(interaction)
UpdateServerPerformance(sp, interaction) ==
    LET server == interaction.server
        all == IF HasKey(sp, server) THEN sp ELSE Append(sp, NewPerformance(server))
    IN  [i \in 1..Len(all) |->
            IF all[i].key # server THEN all[i]
            ELSE LET total == all[i].totalRequests + 1
                     successful == all[i].successfulRequests + Indicator(interaction.valid)
                 IN  [all[i] EXCEPT
                         !.totalRequests = total,
                         !.successfulRequests = successful,
                         !.avgResponseTime = RunningMean(@, total, interaction.duration),
                         !.errorRate = RatNorm(Rat(total - successful, total)),
                         !.patterns = UpdatePatternPerformance(
                                          @, GetPatternKey(interaction.intent),
                                          interaction.valid)]]

\* (mutant) a boost that counts a success without counting a request
BoostPreferredSuccessOnly(sp, preferredServer) ==
    [i \in 1..Len(sp) |->
        IF sp[i].key # preferredServer THEN sp[i]
        ELSE [sp[i] EXCEPT !.successfulRequests = @ + 1]]

\* adjustServerPreference(intent, preferredServer, currentServer)
BoostPreferred(sp, preferredServer) ==
    [i \in 1..Len(sp) |->
        IF sp[i].key # preferredServer THEN sp[i]
        ELSE [sp[i] EXCEPT !.successfulRequests = @ + 1, !.totalRequests = @ + 1]]

PenalizeCurrent(sp, currentServer) ==
    [i \in 1..Len(sp) |->
        IF sp[i].key # currentServer THEN sp[i]
        ELSE [sp[i] EXCEPT
                 !.errorRate = RatNorm(RatMin(RatAdd(@, ErrorRateStep), RatInt(1)))]]

AdjustServerPreference(sp, preferredServer, currentServer) ==
    PenalizeCurrent(BoostPreferred(sp, preferredServer), currentServer)

\* the id recordFeedback looks an interaction up by: `${timestamp}-${query}`
InteractionId(interaction) == <<interaction.timestamp, interaction.query>>

\* interactions.find(...): the index of the first interaction with the id, or 0
FindInteraction(history, id) ==
    IF \E i \in 1..Len(history) : InteractionId(history[i]) = id
    THEN CHOOSE i \in 1..Len(history) :
             /\ InteractionId(history[i]) = id
             /\ \A j \in 1..(i - 1) : InteractionId(history[j]) # id
    ELSE 0

\* getServerStatsForPattern(patternKey), before the sort
ServerStats(sp, key) ==
    LET serving == SelectSeq(sp, LAMBDA perf :
                       HasKey(perf.patterns, key)
                       /\ perf.patterns[KeyIndex(perf.patterns, key)].count > 0)
    IN  [i \in 1..Len(serving) |->
            [server |-> serving[i].key,
             successRate |-> serving[i].patterns[KeyIndex(serving[i].patterns, key)].successRate]]

\* the head of the stats sorted by successRate descending (a stable sort): the
\* first entry no other entry beats
BestStat(stats) ==
    stats[CHOOSE i \in 1..Len(stats) :
              /\ \A j \in 1..Len(stats) : ~RatLess(stats[i].successRate, stats[j].successRate)
              /\ \A j \in 1..(i - 1) : RatLess(stats[j].successRate, stats[i].successRate)]

\* pattern && pattern.successRate > 0.8
AnyPatternPredicts(ps, key) == HasKey(ps, key)

PatternPredicts(ps, key) ==
    HasKey(ps, key) /\ RatLess(PredictionThreshold, ps[KeyIndex(ps, key)].successRate)

\* predictBestServer(intent): a server name, or "null"
PredictBestServer(ps, sp, intent) ==
    LET key == GetPatternKey(intent) IN
    IF PatternPredicts(ps, key) /\ ServerStats(sp, key) # <<>>
    THEN BestStat(ServerStats(sp, key)).server
    ELSE "null"

\* the test of the sweep: pattern.lastUsed.getTime() < oneWeekAgo && frequency < 5
Prunes(pattern, time) ==
    pattern.lastUsed < time - PruneAgeMs /\ pattern.frequency < PruneFrequency

\* analyzePatterns(), as far as the patterns go
AnalyzePatterns(ps, time) == SelectSeq(ps, LAMBDA pattern : ~Prunes(pattern, time))

\* what a call on the learning system leaves alone
LearningOp ==
    /\ lastOp' = Op("learning", "none")
    /\ found' = NoFind
    /\ routed' = NoRoute
    /\ validated' = NoValidation
    /\ queried' = NoQuery
    /\ UNCHANGED <<servers, domainIndex, entityIndex, operationIndex, fuzzySearch,
                   healthTimer, routingCache, validationVars, initialized,
                   resultChecked, ranking, selected, nlpVars, orchVars>>

\* "Save periodically (every 10 interactions)": whether recordInteraction
\* saves, given the history it has pushed to and trimmed
SavesAfter(history) == Len(history) % SaveEvery = 0

\* recordInteraction(interaction)
RecordInteraction(interaction) ==
    /\ interactions' = RecordHistory(interactions, interaction, now)
    /\ patterns' = UpdatePatterns(patterns, interaction, now)
    /\ serverPerformance' = UpdateServerPerformance(serverPerformance, interaction)
    /\ learned' = [Learned(learned.recorded + 1) EXCEPT
                      !.op = "record",
                      !.saved = SavesAfter(interactions'),
                      !.key = GetPatternKey(interaction.intent)]
    /\ UNCHANGED now
    /\ LearningOp

\* recordFeedback(interactionId, feedback)
RecordFeedback(id, feedback) ==
    LET i == FindInteraction(interactions, id)
        adjusts == i # 0 /\ ~feedback.helpful /\ feedback.correctServer # ""
    IN  /\ interactions' =
               IF i = 0 THEN interactions
               ELSE [interactions EXCEPT ![i].feedback = feedback]
        /\ serverPerformance' =
               IF adjusts
               THEN AdjustServerPreference(serverPerformance, feedback.correctServer,
                                           interactions[i].server)
               ELSE serverPerformance
        /\ learned' = [Learned(learned.recorded) EXCEPT
                          !.op = "feedback",
                          !.saved = (i # 0),
                          !.applied = adjusts,
                          !.preferred = feedback.correctServer,
                          !.current = IF i = 0 THEN "none" ELSE interactions[i].server]
        /\ UNCHANGED <<patterns, now>>
        /\ LearningOp

\* a call of predictBestServer(intent)
Predict(intent) ==
    /\ learned' = [Learned(learned.recorded) EXCEPT
                      !.op = "predict",
                      !.key = GetPatternKey(intent),
                      !.prediction = PredictBestServer(patterns, serverPerformance, intent)]
    /\ UNCHANGED <<interactions, patterns, serverPerformance, now>>
    /\ LearningOp

\* the setInterval callback of startPeriodicAnalysis
Sweep ==
    /\ patterns' = AnalyzePatterns(patterns, now)
    /\ learned' = [Learned(learned.recorded) EXCEPT !.op = "sweep"]
    /\ UNCHANGED <<interactions, serverPerformance, now>>
    /\ LearningOp

\* time passes: a day, or a week
PassTime(ms) ==
    /\ now + ms <= MaxDays * DayMs
    /\ now' = now + ms
    /\ learned' = [Learned(learned.recorded) EXCEPT !.op = "time"]
    /\ UNCHANGED <<interactions, patterns, serverPerformance>>
    /\ LearningOp

----------------------------------------------------------------------------
(* NLPProcessor: extractAction *)

\* propertyPatterns.actions in the order of Object.entries; every pattern is
\* /\b(word|...)\b/gi, kept as the set of its words
ActionOrder == <<"query", "create", "update", "delete", "sync", "analyze", "compare">>

ActionKeywords(action) ==
    CASE action = "query"   -> {"show", "list", "get", "find", "search", "display", "view"}
      [] action = "create"  -> {"create", "add", "new", "generate", "make"}
      [] action = "update"  -> {"update", "modify", "change", "edit", "revise"}
      [] action = "delete"  -> {"delete", "remove", "cancel", "void"}
      [] action = "sync"    -> {"sync", "synchronize", "align", "match"}
      [] action = "analyze" -> {"analyze", "examine", "investigate", "review"}
      [] action = "compare" -> {"compare", "contrast", "diff", "versus"}

\* the labels trainClassifier trains the classifier with
ClassifierLabels == {"query", "create", "update", "delete", "sync", "analyze"}

\* a normalized query is its words, joined by single spaces; the index of the
\* first character of word i, and the index after its last
RECURSIVE StartOf(_, _)
StartOf(text, i) == IF i = 1 THEN 0 ELSE StartOf(text, i - 1) + Len(text[i - 1]) + 1

EndOf(text, i) == StartOf(text, i) + Len(text[i])

\* every RegExp object starts with lastIndex 0
NoLastIndex == [a \in Range(ActionOrder) |-> 0]

NoParse == [called |-> FALSE, text |-> <<>>, action |-> "none"]

\* the words of the text a pattern matches, searching from index from
MatchesFrom(action, text, from) ==
    { i \in 1..Len(text) : text[i] \in ActionKeywords(action) /\ StartOf(text, i) >= from }

\* RegExp.prototype.test of a global pattern: the search starts at lastIndex,
\* a match leaves lastIndex after the match, a failure resets it to 0
Test(action, text, from) ==
    LET matches == MatchesFrom(action, text, from)
        first == CHOOSE i \in matches : \A j \in matches : i <= j
    IN  IF matches = {} THEN [found |-> FALSE, lastIndex |-> 0]
        ELSE [found |-> TRUE, lastIndex |-> EndOf(text, first)]

\* extractAction(query, tokens): the patterns are tested in order until one
\* matches; the action returned (the classifier's label when none matches)
\* and the lastIndex every pattern is left with
RECURSIVE ExtractFrom(_, _, _, _)
ExtractFrom(k, text, indexes, classification) ==
    IF k > Len(ActionOrder)
    THEN [action |-> classification, lastIndex |-> indexes]
    ELSE LET action == ActionOrder[k]
             tested == Test(action, text, indexes[action])
             after == [indexes EXCEPT ![action] = tested.lastIndex]
         IN  IF tested.found THEN [action |-> action, lastIndex |-> after]
             ELSE ExtractFrom(k + 1, text, after, classification)

ExtractAction(text, indexes, classification) == ExtractFrom(1, text, indexes, classification)

\* what a call of extractAction leaves alone
NlpOp ==
    /\ lastOp' = Op("parseIntent", "none")
    /\ found' = NoFind
    /\ routed' = NoRoute
    /\ validated' = NoValidation
    /\ queried' = NoQuery
    /\ UNCHANGED <<registryVars, routingCache, validationVars, pipelineVars,
                   learningVars, callVars, orchVars>>

\* parseIntent(query): the action it extracts from the normalized query; the
\* classifier's answer is any of its labels
ParseAction(text) ==
    \E classification \in ClassifierLabels :
        LET extracted == ExtractAction(text, lastIndex, classification)
        IN  /\ lastIndex' = extracted.lastIndex
            /\ parsed' = [called |-> TRUE, text |-> text, action |-> extracted.action]
            /\ NlpOp

----------------------------------------------------------------------------
(* MCPOrchestrator: the server manager, the tool router and the result cache *)

\* A server or tool name is held as the sequence of its parts between
\* underscores: 'list_records' is <<"list", "records">>.  `${a}_${b}` is then
\* a \o b, name.includes('_') is Len(name) > 1 and
\* name.split('_').slice(1).join('_') is Tail(name).  No name is <<>>.
NoName == <<>>

Prefixed(serverName, toolName) == serverName \o toolName

IncludesUnderscore(name) == Len(name) > 1

\* the tool arguments: whether args.noCache is set; JSON.stringify(args)
Args(noCache) == [noCache |-> noCache]

Stringify(args) == IF args.noCache THEN "{\"noCache\":true}" ELSE "{}"

\* a ToolExecutionResult
NoToolResult == [success |-> FALSE, data |-> "", error |-> ""]

ToolSuccess(data) == [success |-> TRUE, data |-> data, error |-> ""]

ToolFailure(message) == [success |-> FALSE, data |-> "", error |-> message]

\* an MCPServer of the manager: its name and the names of its tools
McpServer(name, tools) == [name |-> name, tools |-> tools]

IsConnected(name) == \E i \in 1..Len(mcpServers) : mcpServers[i].name = name

\* no executeOnServer call made yet.  A call is "checking" when an invocation
\* of executeOnServer starts, "awaiting" while serverManager.executeTool is
\* awaited, and "returned" or "threw" when the call is over; server is the
\* server of the current invocation, fromCache tells a cached answer
NoToolCall == [status |-> "idle", server |-> NoName, tool |-> NoName,
                args |-> Args(FALSE), result |-> NoToolResult, fromCache |-> FALSE,
                error |-> ""]

NoTableRoute == [called |-> FALSE, name |-> NoName, found |-> FALSE,
                 server |-> NoName, tool |-> NoName]

\* Map.set / Map.has / Map.get on the routing table
TableHas(table, key) == \E i \in 1..Len(table) : table[i].key = key

TableGet(table, key) == table[CHOOSE i \in 1..Len(table) : table[i].key = key].server

TableSet(table, key, serverName) ==
    IF TableHas(table, key)
    THEN [i \in 1..Len(table) |->
             IF table[i].key = key THEN [key |-> key, server |-> serverName] ELSE table[i]]
    ELSE Append(table, [key |-> key, server |-> serverName])

\* buildRoutingTable: for every server, for every tool, the tool name and
\* the prefixed name are mapped to the server
RECURSIVE AddTools(_, _, _)
AddTools(table, serverName, tools) ==
    IF tools = <<>> THEN table
    ELSE AddTools(TableSet(TableSet(table, Head(tools), serverName),
                           Prefixed(serverName, Head(tools)), serverName),
                  serverName, Tail(tools))

RECURSIVE BuildRoutingTable(_, _)
BuildRoutingTable(table, servers_) ==
    IF servers_ = <<>> THEN table
    ELSE BuildRoutingTable(AddTools(table, Head(servers_).name, Head(servers_).tools),
                           Tail(servers_))

\* Router.route(toolName, args): null, or the server and the "original" tool
RouteTool(table, toolName) ==
    IF TableHas(table, toolName)
    THEN [found |-> TRUE, server |-> TableGet(table, toolName),
          tool |-> IF IncludesUnderscore(toolName) THEN Tail(toolName) ELSE toolName]
    ELSE [found |-> FALSE, server |-> NoName, tool |-> NoName]

\* the fallback mappings of getFallback
Fallbacks(serverName) ==
    CASE serverName = <<"airtable">> -> << <<"supabase">>, <<"notion">> >>
      [] serverName = <<"supabase">> -> << <<"airtable">>, <<"postgres">> >>
      [] serverName = <<"github">>   -> << <<"gitlab">>, <<"bitbucket">> >>
      [] serverName = <<"notion">>   -> << <<"airtable">>, <<"confluence">> >>
      [] OTHER -> <<>>

\* Router.getFallback(serverName, toolName): the first fallback whose prefixed
\* tool is in the routing table, or null (NoName)
GetFallback(table, serverName, toolName) ==
    LET having == SelectSeq(Fallbacks(serverName),
                            LAMBDA f : TableHas(table, Prefixed(f, toolName)))
    IN  IF having = <<>> THEN NoName ELSE having[1]

\* the results of the orchestrator are cached for 60 seconds
ResultTtlMs == 60000

\* `${serverName}:${toolName}:${JSON.stringify(args)}`
ResultKey(serverName, toolName, args) ==
    Join(serverName, "_") \o ":" \o Join(toolName, "_") \o ":" \o Stringify(args)

\* Cache.store, a Map from keys to entries { value, expiry }, as a function:
\* the cache never depends on the order of its entries
EmptyStore == [k \in {} |-> [value |-> NoToolResult, expiry |-> 0]]

StoreHas(store, key) == key \in DOMAIN store

StoreEntry(store, key) == store[key]

StoreDelete(store, key) == [k \in DOMAIN store \ {key} |-> store[k]]

\* (mutant) an entry that is served whatever its expiry
IsLiveForever(store, key) == StoreHas(store, key)

\* Cache.get(key): an entry past its expiry is deleted and null is returned
IsLive(store, key) == StoreHas(store, key) /\ ~(now > StoreEntry(store, key).expiry)

StoreAfterGet(store, key) ==
    IF StoreHas(store, key) /\ now > StoreEntry(store, key).expiry
    THEN StoreDelete(store, key)
    ELSE store

\* Cache.set(key, value, ttl)
StoreSet(store, key, value, ttl) ==
    Put(store, key, [value |-> value, expiry |-> now + ttl * 1000])

\* what an operation of the orchestrator leaves alone
OrchOp ==
    /\ lastOp' = Op("orchestrator", "none")
    /\ found' = NoFind
    /\ routed' = NoRoute
    /\ validated' = NoValidation
    /\ queried' = NoQuery
    /\ UNCHANGED <<routingCache, validationVars, pipelineVars, learningVars,
                   callVars, nlpVars>>

RegistryUnchanged ==
    UNCHANGED <<servers, domainIndex, entityIndex, operationIndex, fuzzySearch, healthTimer>>

\* the 'server:connected' and 'server:disconnected' handlers of
\* setupEventHandlers, once they are set: this.cache.clear()
CacheAfterEvent(store) == IF orchestratorInitialized THEN EmptyStore ELSE store

\* MCPOrchestrator.initialize(config): returns at once when initialized;
\* otherwise the servers of the config are connected and their tools
\* discovered, the routing table is built, and the event handlers are set
RECURSIVE ConnectAll(_, _)
ConnectAll(connected, config) ==
    IF config = <<>> THEN connected
    ELSE ConnectAll(MapSet(connected, McpServer(Head(config)[1], Head(config)[2])),
                    Tail(config))

OrchestratorInitialize(config) ==
    /\ IF orchestratorInitialized
       THEN UNCHANGED <<mcpServers, orchestratorInitialized, routingTable>>
       ELSE /\ mcpServers' = ConnectAll(mcpServers, config)
            /\ routingTable' = BuildRoutingTable(routingTable, mcpServers')
            /\ orchestratorInitialized' = TRUE
    /\ tableRouted' = NoTableRoute
    /\ UNCHANGED <<toolCache, toolCall, now>>
    /\ RegistryUnchanged
    /\ OrchOp

\* disconnectServer(serverName): the server and its client are deleted and
\* 'server:disconnected' is emitted; nothing happens for an unknown name
DisconnectServer(name) ==
    /\ mcpServers' = MapDelete(mcpServers, name)
    /\ toolCache' = IF IsConnected(name) THEN CacheAfterEvent(toolCache) ELSE toolCache
    /\ tableRouted' = NoTableRoute
    /\ UNCHANGED <<orchestratorInitialized, routingTable, toolCall, now>>
    /\ RegistryUnchanged
    /\ OrchOp

\* reconnectServer(serverName): throws for an unknown name; otherwise the
\* server is disconnected and connected again, which may fail; its tools are
\* discovered anew
ReconnectServer(name, tools, connects) ==
    /\ IF ~IsConnected(name)
       THEN UNCHANGED <<mcpServers, toolCache>>
       ELSE /\ mcpServers' = IF connects
                             THEN Append(MapDelete(mcpServers, name), McpServer(name, tools))
                             ELSE MapDelete(mcpServers, name)
            /\ toolCache' = CacheAfterEvent(toolCache)
    /\ tableRouted' = NoTableRoute
    /\ UNCHANGED <<orchestratorInitialized, routingTable, toolCall, now>>
    /\ RegistryUnchanged
    /\ OrchOp

\* Router.refresh(): the routing table is cleared and built again
Refresh ==
    /\ orchestratorInitialized
    /\ routingTable' = BuildRoutingTable(<<>>, mcpServers)
    /\ tableRouted' = NoTableRoute
    /\ UNCHANGED <<mcpServers, orchestratorInitialized, toolCache, toolCall, now>>
    /\ RegistryUnchanged
    /\ OrchOp

\* a call of Router.route(toolName, args)
RouteToolCall(toolName) ==
    /\ tableRouted' = [called |-> TRUE, name |-> toolName,
                       found |-> RouteTool(routingTable, toolName).found,
                       server |-> RouteTool(routingTable, toolName).server,
                       tool |-> RouteTool(routingTable, toolName).tool]
    /\ UNCHANGED <<mcpServers, orchestratorInitialized, routingTable, toolCache,
                   toolCall, now>>
    /\ RegistryUnchanged
    /\ OrchOp

\* executeOnServer(serverName, toolName, args) is called, by executeTool of
\* an initialized orchestrator, with no other call under way
BeginExecute(serverName, toolName, args) ==
    /\ orchestratorInitialized
    /\ toolCall.status \in {"idle", "returned", "threw"}
    /\ toolCall' = [NoToolCall EXCEPT !.status = "checking", !.server = serverName,
                                        !.tool = toolName, !.args = args]
    /\ tableRouted' = NoTableRoute
    /\ UNCHANGED <<mcpServers, orchestratorInitialized, routingTable, toolCache, now>>
    /\ RegistryUnchanged
    /\ OrchOp

\* the catch clause of executeOnServer: the call goes on with the fallback
\* server if there is one, and throws the error otherwise
Catch(call, message) ==
    LET fallback == GetFallback(routingTable, call.server, call.tool) IN
    IF fallback # NoName
    THEN [call EXCEPT !.status = "checking", !.server = fallback]
    ELSE [call EXCEPT !.status = "threw", !.error = message]

\* "Check cache": cached && !args.noCache
AnswersFromCache(store, key, args) == IsLive(store, key) /\ ~args.noCache

\* an invocation of executeOnServer up to its await: the cached result is
\* returned, or serverManager.executeTool throws for a server without client,
\* or its request is sent
ExecuteCheck ==
    /\ toolCall.status = "checking"
    /\ LET key == ResultKey(toolCall.server, toolCall.tool, toolCall.args) IN
       /\ toolCache' = StoreAfterGet(toolCache, key)
       /\ toolCall' =
              IF AnswersFromCache(toolCache, key, toolCall.args)
              THEN [toolCall EXCEPT !.status = "returned", !.fromCache = TRUE,
                                     !.result = StoreEntry(toolCache, key).value]
              ELSE IF ~IsConnected(toolCall.server)
              THEN Catch(toolCall, "Server " \o Join(toolCall.server, "_")
                                              \o " not connected")
              ELSE [toolCall EXCEPT !.status = "awaiting"]
    /\ tableRouted' = NoTableRoute
    /\ UNCHANGED <<mcpServers, orchestratorInitialized, routingTable, now>>
    /\ RegistryUnchanged
    /\ OrchOp

\* "Cache successful results": if (result.success)
ShouldCache(result) == result.success

\* the awaited serverManager.executeTool settles: the tool succeeded, the
\* request failed with an Error (success: false), or it was rejected with a
\* value without a message, which makes executeTool itself throw
ExecuteOutcomes == {"succeeds", "fails", "throws"}

ExecuteComplete(outcome) ==
    /\ toolCall.status = "awaiting"
    /\ LET key == ResultKey(toolCall.server, toolCall.tool, toolCall.args)
           result == IF outcome = "succeeds" THEN ToolSuccess("data")
                     ELSE ToolFailure("request failed")
       IN  IF outcome = "throws"
           THEN /\ toolCall' =
                       Catch(toolCall,
                             "Cannot read properties of undefined (reading 'message')")
                /\ UNCHANGED toolCache
           ELSE /\ toolCall' = [toolCall EXCEPT !.status = "returned", !.result = result]
                /\ toolCache' = IF ShouldCache(result)
                                THEN StoreSet(toolCache, key, result, 60)
                                ELSE toolCache
    /\ tableRouted' = NoTableRoute
    /\ UNCHANGED <<mcpServers, orchestratorInitialized, routingTable, now>>
    /\ RegistryUnchanged
    /\ OrchOp

\* time passes, to within a few ms of the expiry of a result cached at 0
CacheElapse(ms) ==
    /\ now + ms <= ResultTtlMs + MaxLateMs
    /\ (now + ms) % ResultTtlMs <= MaxLateMs
    /\ now' = now + ms
    /\ tableRouted' = NoTableRoute
    /\ UNCHANGED <<mcpServers, orchestratorInitialized, routingTable, toolCache, toolCall>>
    /\ RegistryUnchanged
    /\ OrchOp

----------------------------------------------------------------------------
(* MCPIntelligence *)

\* config.servers of the instance: A and B of the routing scenario, and no
\* PMIP integration
ConfigServers == << <<"A", CapA>>, <<"B", CapB>> >>

NotInitializedMessage == "MCP Intelligence not initialized. Call initialize() first."

\* what a stage of the pipeline threw: an Error object with a message, or a
\* value without a message property (a promise rejected with undefined)
Thrown(stage, type, message) == [stage |-> stage, type |-> type, message |-> message]

\* the intents parseIntent produces here, and its failure
WithFilter(intent, field, value) ==
    [intent EXCEPT !.filters = <<[field |-> field, operator |-> "eq", value |-> value]>>]

QueryIntents ==
    { MkIntent("query", <<Ent("job", "")>>, "none"),
      WithFilter(MkIntent("create", <<Ent("work_order", "")>>, "none"), "status", "open"),
      MkIntent("delete", <<>>, "none") }

ParseOutcomes ==
    { [kind |-> "intent", intent |-> i, message |-> ""] : i \in QueryIntents }
    \cup { [kind |-> "throws", intent |-> MkIntent("none", <<>>, "none"),
            message |-> "Failed to parse query: tokenizer failed"] }

\* what orchestra.execute does with a decision
ExecutionOutcomes == {"returnsRecord", "returnsNothing", "throwsError", "throwsUndefined"}

Users == { NoUser, User("manager", {"read", "write"}), User("tenant", {}) }

\* the callers of query: without a currentUser, and a tenant without permissions
QueryUsers == { NoUser, User("tenant", {}) }

\* the result of an execution that returns: a record with an id, or undefined
ExecutionResult(execution) ==
    IF execution = "returnsRecord" THEN ObjectResult([EmptyObject EXCEPT !.id = "7"])
    ELSE UndefinedResult

\* validateResult(executionResult, intent).isValid
ValidateResultIsValid(execution, intent) ==
    ValidateResult(ExecutionResult(execution), intent).isValid

\* the steps of query in the order of the code: parseIntent, route,
\* validateOperation, executeWithOrchestra, validateResult, recordInteraction
Stages == <<"parse", "route", "validate", "execute", "validateResult", "record">>

\* the steps invoked by a run that got as far as a stage
StagesUpTo(stage) ==
    SubSeq(Stages, 1, CHOOSE i \in 1..Len(Stages) : Stages[i] = stage)

\* the catch clause of query: error.message of what was thrown; reading
\* .message of undefined raises a TypeError out of query
QueryCatchRethrows(thrown) ==
    [NoQuery EXCEPT !.kind = "throws", !.error = thrown.message, !.cause = thrown,
                    !.stages = StagesUpTo(thrown.stage)]

QueryCatch(thrown) ==
    IF thrown.type = "undefined"
    THEN [NoQuery EXCEPT !.kind = "throws",
                         !.error = "Cannot read properties of undefined (reading 'message')",
                         !.cause = thrown, !.stages = StagesUpTo(thrown.stage)]
    ELSE [NoQuery EXCEPT !.kind = "returns", !.success = FALSE,
                         !.error = thrown.message, !.cause = thrown,
                         !.stages = StagesUpTo(thrown.stage)]

\* (mutant) a pipeline that executes and records whatever the validation of
\* the operation says
QueryAfterRoutingUnchecked(intent, decision, user, execution) ==
    [validated |-> ValidateOperation(decision, intent, user), record |-> TRUE,
     result |-> [NoQuery EXCEPT !.kind = "returns", !.success = TRUE,
                     !.hasIntent = TRUE, !.intent = intent, !.hasRouting = TRUE,
                     !.hasData = (execution = "returnsRecord"),
                     !.stages = StagesUpTo("record")]]

\* the stages of query after routing has returned a decision
QueryAfterRouting(intent, decision, user, execution) ==
    LET v == ValidateOperation(decision, intent, user) IN
    IF v.kind = "throws"
    THEN [validated |-> v, record |-> FALSE,
          result |-> QueryCatch(IF v.thrown = "throwsError"
                                THEN Thrown("validate", "Error", "validator failed")
                                ELSE Thrown("validate", "undefined", ""))]
    ELSE IF ~v.isValid
    THEN [validated |-> v, record |-> FALSE,
          result |-> [NoQuery EXCEPT !.kind = "returns", !.success = FALSE,
                          !.error = "Validation failed: " \o Join(v.errors, ", "),
                          !.hasIntent = TRUE, !.intent = intent,
                          !.cause = Thrown("validate", "invalid", ""),
                          !.stages = StagesUpTo("validate")]]
    ELSE IF execution = "throwsError"
    THEN [validated |-> v, record |-> FALSE,
          result |-> QueryCatch(Thrown("execute", "Error", "execution failed"))]
    ELSE IF execution = "throwsUndefined"
    THEN [validated |-> v, record |-> FALSE,
          result |-> QueryCatch(Thrown("execute", "undefined", ""))]
    ELSE [validated |-> v, record |-> TRUE,
          result |-> [NoQuery EXCEPT !.kind = "returns", !.success = TRUE,
                          !.hasIntent = TRUE, !.intent = intent,
                          !.hasRouting = TRUE,
                          !.hasData = (execution = "returnsRecord"),
                          !.stages = StagesUpTo("record")]]

\* the interaction query records: the duration is Date.now() - startTime, and
\* the clock of the model does not advance within a call
QueryInteraction(intent, decision, execution) ==
    Interaction("query", intent, decision.server, 0,
                ValidateResultIsValid(execution, intent))

\* query(naturalLanguageQuery, context)
Query(parse, user, execution) ==
    /\ execution \in {"returnsRecord", "returnsNothing"} => Len(interactions) < MaxInteractions
    /\ IF ~initialized
       THEN /\ queried' = [NoQuery EXCEPT !.kind = "throws", !.error = NotInitializedMessage]
            /\ routed' = NoRoute
            /\ validated' = NoValidation
            /\ UNCHANGED <<routingCache, interactions, learningVars>>
       ELSE IF parse.kind = "throws"
       THEN /\ queried' = QueryCatch(Thrown("parse", "Error", parse.message))
            /\ routed' = NoRoute
            /\ validated' = NoValidation
            /\ UNCHANGED <<routingCache, interactions, learningVars>>
       ELSE \E out \in RouteOutcomes(parse.intent) :
            /\ routed' = out.routed
            /\ routingCache' = out.cache
            /\ IF out.routed.kind = "RoutingError"
               THEN /\ queried' = QueryCatch(Thrown("route", "Error", out.routed.error))
                    /\ validated' = NoValidation
                    /\ UNCHANGED <<interactions, learningVars>>
               ELSE LET rest == QueryAfterRouting(parse.intent, out.routed.decision,
                                                  user, execution)
                        interaction == QueryInteraction(parse.intent, out.routed.decision,
                                                        execution)
                    IN  /\ queried' = rest.result
                        /\ validated' = rest.validated
                        /\ IF rest.record
                           THEN /\ interactions' = RecordHistory(interactions, interaction, now)
                                /\ patterns' = UpdatePatterns(patterns, interaction, now)
                                /\ serverPerformance' =
                                       UpdateServerPerformance(serverPerformance, interaction)
                           ELSE UNCHANGED <<interactions, learningVars>>
    /\ lastOp' = Op("query", "none")
    /\ found' = NoFind
    /\ UNCHANGED <<registryVars, validationVars, initialized, callVars, nlpVars, orchVars>>

RECURSIVE RegisterAll(_, _)
RegisterAll(regs, config) ==
    IF config = <<>> THEN regs
    ELSE RegisterAll(MapSet(regs, NewRegistration(Head(config)[1], Head(config)[2])),
                     Tail(config))

RECURSIVE IndexAll(_, _, _)
IndexAll(index, config, field) ==
    IF config = <<>> THEN index
    ELSE IndexAll(IndexAdd(index, Head(config)[2][field], Head(config)[1]),
                  Tail(config), field)

\* MCPIntelligence.initialize(): returns at once when already initialized;
\* otherwise initializes the registry and the validation engine and
\* registers the configured servers
InitializeIntelligence ==
    /\ IF initialized
       THEN UNCHANGED <<registryVars, rules, initialized>>
       ELSE /\ Len(rules[RuleKey("*", "create")]) < 2 * MaxInitializations
            /\ healthTimer' = TRUE
            /\ rules' = ValidationInitialize(rules)
            /\ servers' = RegisterAll(servers, ConfigServers)
            /\ domainIndex' = IndexAll(domainIndex, ConfigServers, "domains")
            /\ entityIndex' = IndexAll(entityIndex, ConfigServers, "entities")
            /\ operationIndex' = IndexAll(operationIndex, ConfigServers, "operations")
            /\ fuzzySearch' = UpdateFuzzySearch(servers')
            /\ initialized' = TRUE
            /\ UNCHANGED now
    /\ lastOp' = Op("initialize", "none")
    /\ found' = NoFind
    /\ routed' = NoRoute
    /\ validated' = NoValidation
    /\ queried' = NoQuery
    /\ UNCHANGED <<routingCache, customValidators, interactions, learningVars, callVars, nlpVars, orchVars>>

\* shutdown()
Shutdown ==
    /\ initialized' = FALSE
    /\ lastOp' = Op("shutdown", "none")
    /\ found' = NoFind
    /\ routed' = NoRoute
    /\ validated' = NoValidation
    /\ queried' = NoQuery
    /\ UNCHANGED <<registryVars, routingCache, validationVars, interactions,
                   learningVars, callVars, nlpVars, orchVars>>

----------------------------------------------------------------------------
(* Specifications *)

InitRegistry ==
    /\ servers = <<>>
    /\ domainIndex = EmptyIndex(Domains)
    /\ entityIndex = EmptyIndex(EntityTypes)
    /\ operationIndex = EmptyIndex(Operations)
    /\ fuzzySearch = Undefined
    /\ healthTimer = FALSE
    /\ now = 0

\* the validation engine, the learning history and the pipeline as constructed
InitRest ==
    /\ rules = [k \in RuleKeys |-> <<>>]
    /\ customValidators = [s \in ValidatedServers |-> NoValidator]
    /\ validated = NoValidation
    /\ initialized = FALSE
    /\ interactions = <<>>
    /\ queried = NoQuery
    /\ patterns = <<>>
    /\ serverPerformance = <<>>
    /\ learned = NoLearned
    /\ resultChecked = NoResultCheck
    /\ ranking = NoRanked
    /\ selected = NoSelected
    /\ lastIndex = NoLastIndex
    /\ parsed = NoParse
    /\ mcpServers = <<>>
    /\ orchestratorInitialized = FALSE
    /\ routingTable = <<>>
    /\ toolCache = EmptyStore
    /\ toolCall = NoToolCall
    /\ tableRouted = NoTableRoute

Init ==
    /\ InitRegistry
    /\ found = NoFind
    /\ lastOp = Op("new", "none")
    /\ routingCache = <<>>
    /\ routed = NoRoute
    /\ InitRest

Next ==
    \/ Initialize
    \/ \E name \in Names, capability \in Capabilities : Register(name, capability)
    \/ \E name \in Names : Unregister(name)
    \/ \E name \in Names : MarkHealthy(name)
    \/ \E name \in Names : MarkUnhealthy(name)
    \/ HealthSweep
    \/ Tick
    \/ \E intent \in Intents : Find(intent)

\* the registry on its own
Spec == Init /\ [][Next]_vars

\* the router over a changing registry
NextRouter ==
    \/ Initialize
    \/ \E r \in RouterRegistrations : Register(r[1], r[2])
    \/ \E name \in Names : Unregister(name)
    \/ \E name \in Names : MarkHealthy(name)
    \/ \E name \in Names : MarkUnhealthy(name)
    \/ HealthSweep
    \/ Tick
    \/ \E intent \in RouterIntents : Route(intent)
    \/ ClearCache

SpecRouter == Init /\ [][NextRouter]_vars

\* The router with a cache that is nearly full: A and B are registered, the
\* registry is initialized, and intents {query, job:<i>} for i = 1, 2, ... have
\* been routed, each a miss that stored its decision.
FillerIntent(i) == MkIntent("query", <<Ent("job", ToString(i))>>, "none")

FilledCache(n) ==
    [i \in 1..n |->
        [key |-> GetCacheKey(FillerIntent(i)),
         decision |-> BuildDecision(
                          RankServersByRelevance(ExactRegistrations(FillerIntent(i)),
                                                 FillerIntent(i)),
                          FillerIntent(i))]]

CacheIntents ==
    RouterIntents \cup { MkIntent("query", <<>>, "none"), FillerIntent(1), FillerIntent(2) }

InitCache ==
    /\ now = 0
    /\ servers = <<NewRegistration("A", CapA), NewRegistration("B", CapB)>>
    /\ domainIndex = [property |-> <<"A">>, maintenance |-> <<"B">>]
    /\ entityIndex = [work_order |-> <<"A">>, job |-> <<"B">>]
    /\ operationIndex = [query |-> <<"A", "B">>, create |-> <<"A">>]
    /\ fuzzySearch = UpdateFuzzySearch(servers)
    /\ healthTimer = TRUE
    /\ found = NoFind
    /\ lastOp = Op("route", "none")
    /\ \E n \in (MaxCacheSize - CacheHeadroom)..MaxCacheSize : routingCache = FilledCache(n)
    /\ routed = NoRoute
    /\ InitRest

NextCache ==
    \/ \E intent \in CacheIntents : Route(intent)
    \/ ClearCache

SpecCache == InitCache /\ [][NextCache]_vars

\* The router handed intents that differ in the order of their entities and
\* filters only, over a registry holding A and B
Filter(field, operator, value) == [field |-> field, operator |-> operator, value |-> value]

EntityOrders ==
    Perms({Ent("job", "7"), Ent("work_order", "9")}) \cup { <<Ent("job", "7")>> }

FilterOrders ==
    Perms({Filter("status", "equals", "open"), Filter("priority", "equals", "high")})
    \cup { <<>> }

ReorderedIntents ==
    { [MkIntent("query", es, "none") EXCEPT !.filters = fs] :
          es \in EntityOrders, fs \in FilterOrders }

InitCacheKey ==
    /\ now = 0
    /\ servers = <<NewRegistration("A", CapA), NewRegistration("B", CapB)>>
    /\ domainIndex = [property |-> <<"A">>, maintenance |-> <<"B">>]
    /\ entityIndex = [work_order |-> <<"A">>, job |-> <<"B">>]
    /\ operationIndex = [query |-> <<"A", "B">>, create |-> <<"A">>]
    /\ fuzzySearch = UpdateFuzzySearch(servers)
    /\ healthTimer = TRUE
    /\ found = NoFind
    /\ lastOp = Op("route", "none")
    /\ routingCache = <<>>
    /\ routed = NoRoute
    /\ InitRest

NextCacheKey ==
    \/ \E intent \in ReorderedIntents :
          /\ \/ Len(routingCache) < MaxCachedKeys
             \/ CacheHas(routingCache, GetCacheKey(intent))
          /\ Route(intent)
    \/ ClearCache

SpecCacheKey == InitCacheKey /\ [][NextCacheKey]_vars

\* The router handed intents that differ in context.domain, timeframe and
\* aggregation only, over a registry holding A and B
SharedTimeframes ==
    { NoTimeframe,
      [start |-> "2024-01-01", end |-> "2024-01-31", relative |-> "none"],
      [start |-> "none", end |-> "none", relative |-> "today"] }

SharedKeyIntents ==
    { [MkIntent("query", es, dom) EXCEPT !.timeframe = tf, !.aggregation = agg] :
          es \in {<<>>, <<Ent("job", "7")>>},
          dom \in {"none", "property", "maintenance"},
          tf \in SharedTimeframes,
          agg \in {"none", "count"} }

NextSharedKey ==
    \/ \E intent \in SharedKeyIntents : Route(intent)
    \/ ClearCache

SpecSharedKey == InitCacheKey /\ [][NextSharedKey]_vars

\* the router while servers come and go: calls that find a server, calls that
\* find none, and calls made before the fuzzy index is built
FailureRegistrations == { <<"A", CapA>>, <<"B", CapB>> }

FailureIntents ==
    { MkIntent("create", <<Ent("work_order", "")>>, "none"),
      MkIntent("query", <<Ent("job", "")>>, "none"),
      MkIntent("delete", <<>>, "none") }

NextRouteFailure ==
    \/ Initialize
    \/ \E r \in FailureRegistrations : Register(r[1], r[2])
    \/ \E name \in Names : Unregister(name)
    \/ \E intent \in FailureIntents : Route(intent)

SpecRouteFailure == Init /\ [][NextRouteFailure]_vars

\* the health of the registrations while time passes by a millisecond or by
\* the health threshold
HealthRegistrations == { <<"A", CapA>>, <<"B", CapB>> }

NextHealth ==
    \/ Initialize
    \/ \E r \in HealthRegistrations : Register(r[1], r[2])
    \/ \E name \in Names : MarkHealthy(name)
    \/ \E name \in Names : MarkUnhealthy(name)
    \/ HealthSweep
    \/ \E ms \in {1, HealthThresholdMs} : Elapse(ms)

SpecHealth == Init /\ [][NextHealth]_vars

\* the health of registrations that are used while time passes: requests are
\* counted on them and intents are routed to them
StalenessIntents == { MkIntent("query", <<Ent("job", "")>>, "maintenance") }

NextStaleness ==
    \/ Initialize
    \/ \E r \in HealthRegistrations : Register(r[1], r[2])
    \/ \E name \in Names : MarkHealthy(name)
    \/ \E name \in Names : MarkUnhealthy(name)
    \/ HealthSweep
    \/ \E ms \in {1, HealthThresholdMs} : Elapse(ms)
    \/ /\ SumRequests(servers) < MaxMetricUpdates
       /\ \E name \in Names, success \in BOOLEAN : UpdateMetrics(name, 1000, success)
    \/ \E intent \in StalenessIntents : Route(intent)

SpecStaleness == Init /\ [][NextStaleness]_vars

\* selectTool applied to servers declaring synonyms in several orders, other
\* operations, or none, for intents with and without entities
ToolOperations ==
    { <<>>, <<"query">>, <<"get", "list">>, <<"list", "get">>, <<"query", "get", "list">>,
      <<"export">>, <<"export", "search">>, <<"create">>, <<"add", "create">>,
      <<"post", "insert">>, <<"remove">>, <<"export", "put">>, <<"summarize">> }

ToolServers ==
    { NewRegistration("A", [CapA EXCEPT !.operations = ops]) : ops \in ToolOperations }

ToolIntents ==
    { MkIntent(a, es, "none") :
          a \in {"query", "create", "update", "delete", "summarize"},
          es \in { <<>>, <<Ent("job", "")>>, <<Ent("work_order", ""), Ent("job", "")>> } }

NextTool == \E reg \in ToolServers, intent \in ToolIntents : Select(reg, intent)

SpecTool == Init /\ [][NextTool]_vars

\* the validation engine called directly
ValidationParams ==
    { EmptyParams, Put(EmptyParams, "id", "7"), Put(EmptyParams, "portfolio", "p1"),
      Put(EmptyParams, "note", "drop table jobs") }

ValidationDecisions ==
    { [NoDecision EXCEPT !.server = s, !.tool = "tool", !.params = p] :
          s \in ValidatedServers, p \in ValidationParams }

ValidationIntents == { MkIntent(a, <<>>, "none") : a \in ValidatedActions }

\* the results handed to validateResult
ResultObjects ==
    { EmptyObject,
      [EmptyObject EXCEPT !.id = "7"],
      [EmptyObject EXCEPT !._id = "x7"],
      [EmptyObject EXCEPT !.id = "7",
          !.work_order = [NoWorkOrder EXCEPT !.present = TRUE, !.status = "completed"]],
      [EmptyObject EXCEPT !.id = "7",
          !.work_order = [NoWorkOrder EXCEPT !.present = TRUE, !.priority = "emergency"]],
      [EmptyObject EXCEPT !.id = "7",
          !.lease = [present |-> TRUE, startDate |-> 20, endDate |-> 10, rentAmount |-> -1]],
      [EmptyObject EXCEPT !.id = "7",
          !.lease = [present |-> TRUE, startDate |-> 10, endDate |-> 20, rentAmount |-> 900]],
      [EmptyObject EXCEPT
          !.unit = [present |-> TRUE, status |-> "vacant", tenantId |-> "t1"]],
      [EmptyObject EXCEPT !.id = "7",
          !.unit = [present |-> TRUE, status |-> "occupied", tenantId |-> ""]] }

ResultValues ==
    { UndefinedResult, ArrayResult(<<>>) }
    \cup { ObjectResult(o) : o \in ResultObjects }
    \cup { ArrayResult(<<o>>) : o \in ResultObjects }
    \cup { ArrayResult(<<o, EmptyObject>>) : o \in ResultObjects }

NextValidation ==
    \/ InitializeValidation
    \/ \E s \in ValidatedServers, v \in Validators : RegisterValidator(s, v)
    \/ \E d \in ValidationDecisions, i \in ValidationIntents, u \in Users : Validate(d, i, u)

SpecValidation == Init /\ [][NextValidation]_vars

\* the business rules: decisions carrying a work order, validated before and
\* after the rules are loaded
RuleParams ==
    { EmptyParams, Put(EmptyParams, "id", "7"), Put(EmptyParams, "work_order", "urgent"),
      Put(EmptyParams, "work_order", "high"), Put(EmptyParams, "workOrder", "urgent") }

RuleDecisions ==
    { [NoDecision EXCEPT !.server = s, !.tool = "tool", !.params = p] :
          s \in {"A", "propertyware"}, p \in RuleParams }

NextRules ==
    \/ InitializeValidation
    \/ \E d \in RuleDecisions, i \in ValidationIntents, u \in Users : Validate(d, i, u)

SpecRules == Init /\ [][NextRules]_vars

\* the permissions: users of every role holding none, one or two of the
\* permissions, for the five actions of requiredPermissions and one other
PermissionSets == { {}, {"read"}, {"write"}, {"admin"}, {"read", "write"} }

PermissionUsers ==
    {NoUser} \cup { User(role, perms) : role \in {"admin", "manager", "tenant"},
                                        perms \in PermissionSets }

PermissionActions == {"query", "create", "update", "delete", "sync", "analyze"}

PermissionIntents == { MkIntent(a, <<>>, "none") : a \in PermissionActions }

PermissionDecisions ==
    { [NoDecision EXCEPT !.server = s, !.tool = "tool", !.params = Put(EmptyParams, "id", "7")] :
          s \in {"A", "propertyware"} }

NextPermissions ==
    \/ InitializeValidation
    \/ \E d \in PermissionDecisions, i \in PermissionIntents, u \in PermissionUsers :
           Validate(d, i, u)

SpecPermissions == Init /\ [][NextPermissions]_vars

\* the NLP processor: queries of one to three words are parsed one after
\* another by the same processor
ParsedWords == {"show", "new", "jobs"}

ParsedTexts ==
    UNION { [1..n -> ParsedWords] : n \in 1..MaxWords }

NextParsing == \E text \in ParsedTexts : ParseAction(text)

SpecParsing == Init /\ [][NextParsing]_vars

\* the orchestrator over airtable and supabase, each other's fallback, which
\* are disconnected while calls are made; a request that is sent is answered
Airtable == <<"airtable">>

Supabase == <<"supabase">>

QueryTool == <<"query">>

ListRecordsTool == <<"list", "records">>

FallbackConfigs ==
    { << <<Airtable, <<QueryTool>>>>, <<Supabase, <<QueryTool>>>> >>,
      << <<Airtable, <<QueryTool, ListRecordsTool>>>>, <<Supabase, <<ListRecordsTool>>>> >>,
      << <<Airtable, <<QueryTool>>>> >> }

NextFallback ==
    \/ \E config \in FallbackConfigs : OrchestratorInitialize(config)
    \/ \E name \in {Airtable, Supabase} : DisconnectServer(name)
    \/ \E name \in {Airtable, Supabase}, noCache \in BOOLEAN :
           BeginExecute(name, QueryTool, Args(noCache))
    \/ ExecuteCheck
    \/ \E outcome \in {"succeeds", "fails"} : ExecuteComplete(outcome)

\* an invocation that can go on does go on, and an awaited request settles
SpecFallback ==
    /\ Init
    /\ [][NextFallback]_vars
    /\ WF_vars(ExecuteCheck)
    /\ WF_vars(\E outcome \in {"succeeds", "fails"} : ExecuteComplete(outcome))

\* the result cache of the orchestrator over airtable and supabase: calls with
\* and without args.noCache, answered, failed or rejected, while servers are
\* disconnected and reconnected and the results cached at 0 and 1 ms expire
NextResultCache ==
    \/ OrchestratorInitialize(<< <<Airtable, <<QueryTool>>>>, <<Supabase, <<QueryTool>>>> >>)
    \/ \E name \in {Airtable, Supabase} : DisconnectServer(name)
    \/ \E name \in {Airtable, Supabase}, connects \in BOOLEAN :
           ReconnectServer(name, <<QueryTool>>, connects)
    \/ \E name \in {Airtable, Supabase}, noCache \in BOOLEAN :
           BeginExecute(name, QueryTool, Args(noCache))
    \/ ExecuteCheck
    \/ \E outcome \in ExecuteOutcomes : ExecuteComplete(outcome)
    \/ \E ms \in {1, ResultTtlMs} : CacheElapse(ms)

SpecResultCache == Init /\ [][NextResultCache]_vars

\* the tool router over airtable and supabase: tools are looked up by their
\* own name, by their prefixed name and by names no server has, while servers
\* are disconnected or reconnected with other tools and the table is refreshed
UnknownTool == <<"unknown">>

RoutedNames ==
    {QueryTool, ListRecordsTool, UnknownTool,
     Prefixed(Airtable, QueryTool), Prefixed(Airtable, ListRecordsTool),
     Prefixed(Supabase, QueryTool), Prefixed(Supabase, ListRecordsTool)}

NextToolRouting ==
    \/ \E config \in FallbackConfigs : OrchestratorInitialize(config)
    \/ \E name \in {Airtable, Supabase} : DisconnectServer(name)
    \/ \E name \in {Airtable, Supabase}, tools \in {<<QueryTool>>, <<ListRecordsTool>>} :
           ReconnectServer(name, tools, TRUE)
    \/ Refresh
    \/ \E toolName \in RoutedNames : RouteToolCall(toolName)

SpecToolRouting == Init /\ [][NextToolRouting]_vars

\* validateResult called directly
NextResult == \E r \in ResultValues, i \in ValidationIntents : CheckResult(r, i)

SpecResult == Init /\ [][NextResult]_vars

\* the query pipeline over the life of an instance; the validators registered
\* return no findings or throw
QueryValidators == { v \in Validators : v.errors = <<>> }

NextQuery ==
    \/ InitializeIntelligence
    \/ Shutdown
    \/ \E v \in QueryValidators : RegisterValidator("A", v)
    \/ \E p \in ParseOutcomes, u \in QueryUsers, e \in ExecutionOutcomes : Query(p, u, e)

SpecQuery == Init /\ [][NextQuery]_vars

\* the query pipeline handed a delete with an id as an entity of role filter,
\* the same with the entity of another role, and an update without any id
IdEntity(role) == [type |-> "id", value |-> "7", role |-> role]

IdIntents ==
    { MkIntent("delete", <<IdEntity("filter")>>, "none"),
      MkIntent("delete", <<IdEntity("object")>>, "none"),
      WithFilter(MkIntent("update", <<>>, "none"), "status", "open") }

IdParseOutcomes == { [kind |-> "intent", intent |-> i, message |-> ""] : i \in IdIntents }

NextIdRequired ==
    \/ InitializeIntelligence
    \/ Shutdown
    \/ \E p \in IdParseOutcomes, e \in ExecutionOutcomes : Query(p, NoUser, e)

SpecIdRequired == Init /\ [][NextIdRequired]_vars

\* The learning system called directly.  Interactions of two signatures are
\* recorded, for either server, valid or not.
LearningIntents ==
    { MkIntent("query", <<Ent("job", "")>>, "none"),
      MkIntent("create", <<Ent("work_order", "")>>, "none") }

QueryText(intent) == IF intent.action = "query" THEN "list jobs" ELSE "create work order"

LearningInteractions ==
    { Interaction(QueryText(i), i, server, 100, valid) :
          i \in LearningIntents, server \in Names, valid \in BOOLEAN }

Feedbacks == { Feedback(FALSE, "A"), Feedback(FALSE, "B"), Feedback(TRUE, "") }

\* the state after n valid interactions "show jobs" were recorded, at time 0,
\* for server B
FillerQuery == "show jobs"

FillerInteraction ==
    Interaction(FillerQuery, MkIntent("query", <<Ent("job", "")>>, "none"), "B", 100, TRUE)

FilledHistory(n) == [i \in 1..n |-> FillerInteraction]

FilledPatterns(n) ==
    IF n = 0 THEN <<>>
    ELSE << [key |-> GetPatternKey(FillerInteraction.intent), pattern |-> FillerQuery,
             frequency |-> n, avgDuration |-> RatInt(100), successRate |-> RatInt(1),
             lastUsed |-> 0] >>

FilledPerformance(n) ==
    IF n = 0 THEN <<>>
    ELSE << [key |-> "B", totalRequests |-> n, successfulRequests |-> n,
             avgResponseTime |-> RatInt(100), errorRate |-> RatInt(0),
             patterns |-> << [key |-> GetPatternKey(FillerInteraction.intent),
                              count |-> n, successRate |-> RatInt(1)] >>] >>

InitLearned(n) ==
    /\ InitRegistry
    /\ found = NoFind
    /\ lastOp = Op("new", "none")
    /\ routingCache = <<>>
    /\ routed = NoRoute
    /\ rules = [k \in RuleKeys |-> <<>>]
    /\ customValidators = [s \in ValidatedServers |-> NoValidator]
    /\ validated = NoValidation
    /\ initialized = FALSE
    /\ queried = NoQuery
    /\ interactions = FilledHistory(n)
    /\ patterns = FilledPatterns(n)
    /\ serverPerformance = FilledPerformance(n)
    /\ learned = Learned(n)
    /\ resultChecked = NoResultCheck
    /\ ranking = NoRanked
    /\ selected = NoSelected
    /\ lastIndex = NoLastIndex
    /\ parsed = NoParse
    /\ mcpServers = <<>>
    /\ orchestratorInitialized = FALSE
    /\ routingTable = <<>>
    /\ toolCache = EmptyStore
    /\ toolCall = NoToolCall
    /\ tableRouted = NoTableRoute

\* the interactions recorded since the initial state
Recordings == Len(SelectSeq(interactions, LAMBDA i : i.query # FillerQuery))

\* feedback is given once per interaction at most, for an id of the history
\* or an id that is not there
FeedbackIds ==
    { InteractionId(interactions[i]) :
          i \in { j \in 1..Len(interactions) :
                     ~interactions[FindInteraction(interactions,
                                                   InteractionId(interactions[j]))].feedback.given } }
    \cup { <<0, "no such query">> }

\* ranking over a registry whose servers are registered anew and whose
\* metrics change
RankingRegistrations == { <<"A", CapA>>, <<"B", CapB>> }

RankingIntents ==
    { MkIntent("query", <<>>, "none"),
      MkIntent("query", <<Ent("job", "")>>, "maintenance") }

\* the candidate arrays a caller can hold: registrations of the registry, in
\* any order
CandidateLists == UNION { Perms(S) : S \in SUBSET Range(servers) }

NextRanking ==
    \/ \E r \in RankingRegistrations : Register(r[1], r[2])
    \/ /\ SumRequests(servers) < MaxMetricUpdates
       /\ \E name \in Names, success \in BOOLEAN : UpdateMetrics(name, 1000, success)
    \/ /\ ranking.calls < MaxRankings
       /\ \E candidates \in CandidateLists, intent \in RankingIntents :
              Rank(candidates, intent)

SpecRanking == Init /\ [][NextRanking]_vars

\* recording and prediction, with no sweep
NextRecording ==
    \/ Recordings < MaxRecords /\ \E i \in LearningInteractions : RecordInteraction(i)
    \/ \E i \in LearningIntents : Predict(i)

\* the number of valid recordings after which one invalid recording leaves
\* the success rate exactly at the prediction threshold (4 of 5 for 0.8)
ThresholdRun == RatNorm(PredictionThreshold).n

InitRecording == \E n \in {0, ThresholdRun} : InitLearned(n)

SpecRecording == InitRecording /\ [][NextRecording]_vars

\* recording and feedback, with no sweep
FeedbackInteractions == { i \in LearningInteractions : i.intent.action = "query" }

NextFeedback ==
    \/ Recordings < MaxFeedbackRecords
       /\ \E i \in FeedbackInteractions : RecordInteraction(i)
    \/ \E id \in FeedbackIds, f \in Feedbacks : RecordFeedback(id, f)

SpecFeedback == InitLearned(0) /\ [][NextFeedback]_vars

\* recording and feedback while time passes and the sweep runs; the pattern of
\* "show jobs" may have been seen PruneFrequency times already
SweepInteractions == { i \in LearningInteractions : i.server = "A" /\ i.valid }

InitSweep == \E n \in {0, PruneFrequency} : InitLearned(n)

NextSweep ==
    \/ Recordings < MaxSweepRecords /\ \E i \in SweepInteractions : RecordInteraction(i)
    \/ \E id \in FeedbackIds : RecordFeedback(id, Feedback(FALSE, "B"))
    \/ \E ms \in {DayMs, PruneAgeMs} : PassTime(ms)
    \/ Sweep

SpecSweep == InitSweep /\ [][NextSweep]_vars

\* recording into a history that is nearly full
InitHistory ==
    \E n \in (MaxHistorySize - HistoryHeadroom)..MaxHistorySize : InitLearned(n)

NextHistory ==
    Recordings < MaxOverflow /\ \E i \in LearningInteractions : RecordInteraction(i)

SpecHistory == InitHistory /\ [][NextHistory]_vars

----------------------------------------------------------------------------
(* Registry claims *)

\* C1: every registration returned by findServersForIntent has status
\* 'active', the results of the fuzzy-search fallback included.
C1_FindReturnsOnlyActive ==
    found.kind = "ok" => \A i \in 1..Len(found.regs) : found.regs[i].status = "active"

\* the registered names whose current capability declares v in field f
Declaring(f, v) ==
    { servers[i].name : i \in { j \in 1..Len(servers) : SeqContains(servers[j].capability[f], v) } }

\* C3: each index holds under each value exactly the currently registered
\* servers whose current capability declares that value.
C3_IndicesExact ==
    /\ \A v \in Domains : Range(domainIndex[v]) = Declaring("domains", v)
    /\ \A v \in EntityTypes : Range(entityIndex[v]) = Declaring("entities", v)
    /\ \A v \in Operations : Range(operationIndex[v]) = Declaring("operations", v)

AbsentEverywhere(name, regs, dIndex, eIndex, oIndex) ==
    /\ \A i \in 1..Len(regs) : regs[i].name # name
    /\ \A v \in Domains : ~SeqContains(dIndex[v], name)
    /\ \A v \in EntityTypes : ~SeqContains(eIndex[v], name)
    /\ \A v \in Operations : ~SeqContains(oIndex[v], name)

\* C4: register(name, capability) directly followed by unregister(name)
\* leaves name absent from the registration map and from every index set.
\* (After register(name) the name is registered, and the only step that
\* unregisters it is unregister(name).)
C4_RegisterThenUnregister ==
    [][ \A name \in Names :
          (lastOp = Op("register", name) /\ ~IsRegisteredIn(servers', name))
          => AbsentEverywhere(name, servers', domainIndex', entityIndex', operationIndex') ]_vars

----------------------------------------------------------------------------
(* Router claims *)

IsActive(name) == IsRegistered(name) /\ GetServer(name).status = "active"

\* C2: every decision route returns, computed or cached, names a server that
\* is registered with status 'active' at the moment route returns.
C2_DecisionNamesActiveServer ==
    routed.kind = "decision" => IsActive(routed.decision.server)

\* the scenario registry: exactly A with CapA and B with CapB, both active,
\* with zero metrics
ScenarioRegistry ==
    /\ { servers[i].name : i \in 1..Len(servers) } = {"A", "B"}
    /\ Len(servers) = 2
    /\ GetServer("A").capability = CapA
    /\ GetServer("B").capability = CapB
    /\ \A i \in 1..Len(servers) :
          servers[i].status = "active" /\ servers[i].metrics = ZeroMetrics

CreateJob == MkIntent("create", <<Ent("job", "")>>, "none")

CreateWorkOrder == MkIntent("create", <<Ent("work_order", "")>>, "none")

\* route was just called with `intent` and did not answer from the cache
RoutedFresh(intent) == routed.kind # "none" /\ routed.intent = intent /\ ~routed.hit

\* C5 as stated: in the scenario registry, route of {create, job} fails with
\* RoutingError and returns no decision.
C5_CreateJobFails ==
    (ScenarioRegistry /\ RoutedFresh(CreateJob)) => routed.kind = "RoutingError"

\* C5 as amended: in the scenario registry, route of {create, job} returns a
\* decision for A (found through the operation index, score 5 against B's 3)
\* with tool 'create_job' and B as its only alternate.
C5_CreateJobRoutesToA ==
    (ScenarioRegistry /\ RoutedFresh(CreateJob))
    => /\ routed.kind = "decision"
       /\ routed.decision.server = "A"
       /\ routed.decision.tool = "create_job"
       /\ Len(routed.decision.alternates) = 1
       /\ routed.decision.alternates[1].server = "B"

C5_Witness ==
    ScenarioRegistry /\ RoutedFresh(CreateJob) /\ routed.decision.tool = "create_job"

C7_CacheHitReturnsStored ==
    [][ /\ (routed'.kind # "none" /\ CacheHas(routingCache, GetCacheKey(routed'.intent)))
           => /\ routed'.kind = "decision"
              /\ routed'.decision = CacheGet(routingCache, GetCacheKey(routed'.intent))
              /\ ~routed'.lookup
              /\ routingCache' = routingCache
        /\ (routed'.kind = "decision" /\ ~CacheHas(routingCache, GetCacheKey(routed'.intent)))
           => /\ CacheHas(routingCache', GetCacheKey(routed'.intent))
              /\ CacheGet(routingCache', GetCacheKey(routed'.intent)) = routed'.decision
        /\ \A i \in 1..Len(routingCache) :
              CacheHas(routingCache', routingCache[i].key)
              => CacheGet(routingCache', routingCache[i].key) = routingCache[i].decision
      ]_vars

\* a cache hit that returns a decision for a server no longer registered
C7_Witness ==
    routed.kind = "decision" /\ routed.hit /\ ~IsRegistered(routed.decision.server)

\* C8: the cache never holds more than 1000 entries; a hit leaves the cache
\* as it is (its entry keeps its position); a miss appends its entry at the
\* end, and when that pushes the cache past capacity exactly one entry goes,
\* the first one, which is the one inserted earliest among those present;
\* the entry just inserted stays.
C8_BoundedFifoCache ==
    /\ [](Len(routingCache) <= MaxCacheSize)
    /\ [][ routed'.kind # "none" =>
             IF routed'.hit \/ routed'.kind # "decision"
             THEN routingCache' = routingCache
             ELSE LET entry == [key |-> GetCacheKey(routed'.intent),
                                decision |-> routed'.decision]
                  IN  IF Len(routingCache) >= MaxCacheSize
                      THEN routingCache' = Tail(routingCache) \o <<entry>>
                      ELSE routingCache' = routingCache \o <<entry>>
         ]_vars

\* a miss on a full cache has just evicted the oldest entry and kept the rest
C8_Witness ==
    /\ Len(routingCache) = MaxCacheSize
    /\ routed.kind = "decision" /\ ~routed.hit
    /\ routingCache[Len(routingCache)].key = GetCacheKey(routed.intent)
    /\ ~CacheHas(routingCache, GetCacheKey(FillerIntent(1)))
    /\ CacheHas(routingCache, GetCacheKey(FillerIntent(2)))

----------------------------------------------------------------------------
(* Validation and the query pipeline *)

\* C9: validateOperation never raises: when the custom validator registered
\* for the decision's server throws or rejects, the call still returns a
\* ValidationResult.
C9_ValidateOperationNeverRaises ==
    validated.kind # "none" => validated.kind = "returns"

C11_FailureCarriesIntent ==
    /\ queried.kind = "returns"
    /\ ~queried.success
    /\ queried.cause.stage \in {"route", "validate", "execute"}
    => queried.hasIntent /\ queried.intent \in QueryIntents

\* the message validateParameters gives for a missing id
IdRequiredMessage(action) ==
    IF action = "update" THEN "Update operation requires an ID"
    ELSE "Delete operation requires an ID"

\* C12: for an update or delete intent and params without a truthy id,
\* validateOperation returns isValid=false with the ID-required error of the
\* action among its errors, whatever the permissions, the business rules and
\* the custom validator.
C12_IdRequired ==
    /\ validated.kind # "none"
    /\ validated.action \in {"update", "delete"}
    /\ ~Truthy(validated.params, "id")
    => /\ validated.kind = "returns"
       /\ ~validated.isValid
       /\ SeqContains(validated.errors, IdRequiredMessage(validated.action))

\* C13: validateResult returns isValid=false whenever the action is create or
\* update and the result carries neither id nor _id; for a query whose result
\* is an array, an empty array and items without an identifier give warnings
\* only, so an empty array yields isValid=true with at least one warning.
C13_ResultValidation ==
    resultChecked.kind = "returns" =>
        /\ resultChecked.action \in {"create", "update"}
           /\ (resultChecked.result.kind # "object"
               \/ (resultChecked.result.obj.id = "" /\ resultChecked.result.obj._id = ""))
           => ~resultChecked.isValid
        /\ resultChecked.action = "query" /\ resultChecked.result.kind = "array"
           => /\ resultChecked.isValid
              /\ Len(resultChecked.warnings) >=
                     Cardinality({ i \in 1..Len(resultChecked.result.items) :
                                     resultChecked.result.items[i].id = ""
                                     /\ resultChecked.result.items[i]._id = "" })
        /\ resultChecked.action = "query" /\ resultChecked.result = ArrayResult(<<>>)
           => resultChecked.isValid /\ Len(resultChecked.warnings) >= 1

\* a create whose result is the empty object {} was found invalid
C13_Witness ==
    /\ resultChecked.kind = "returns"
    /\ resultChecked.action = "create"
    /\ resultChecked.result = ObjectResult(EmptyObject)
    /\ ~resultChecked.isValid

----------------------------------------------------------------------------
(* Learning claims *)

\* the interactions of the history that carry the signature key
WithSignature(key) ==
    SelectSeq(interactions, LAMBDA i : GetPatternKey(i.intent) = key)

C15_NoPredictionAtLowSuccess ==
    (/\ learned.op = "predict"
     /\ \/ ~HasKey(patterns, learned.key)
        \/ ~RatLess(Rat(8, 10), patterns[KeyIndex(patterns, learned.key)].successRate))
    => learned.prediction = "null"

\* a prediction was asked for a pattern whose successRate is exactly 0.8,
\* which a server has statistics for, and none was made
C15_Witness ==
    /\ learned.op = "predict"
    /\ HasKey(patterns, learned.key)
    /\ RatEq(patterns[KeyIndex(patterns, learned.key)].successRate, Rat(8, 10))
    /\ ServerStats(serverPerformance, learned.key) # <<>>
    /\ learned.prediction = "null"

\* the successfulRequests counter of a server; a server with no performance
\* entry has served nothing
SuccessfulRequestsOf(sp, server) ==
    IF HasKey(sp, server) THEN sp[KeyIndex(sp, server)].successfulRequests ELSE 0

\* the errorRate of a server; a server with no performance entry has none
ErrorRateOf(sp, server) ==
    IF HasKey(sp, server) THEN sp[KeyIndex(sp, server)].errorRate ELSE RatInt(0)

\* C16: recordFeedback with the id of an interaction routed to server A,
\* helpful=false and correctServer=B (B different from A) leaves B's
\* successfulRequests strictly greater and A's errorRate strictly greater than
\* before, for every prior learning state.
C16_FeedbackMovesBothServers ==
    [][(/\ learned'.op = "feedback"
        /\ learned'.applied
        /\ learned'.preferred # learned'.current)
       => /\ SuccessfulRequestsOf(serverPerformance', learned'.preferred)
                > SuccessfulRequestsOf(serverPerformance, learned'.preferred)
          /\ RatLess(ErrorRateOf(serverPerformance, learned'.current),
                     ErrorRateOf(serverPerformance', learned'.current))]_vars

\* C17: a run of the pruning sweep removes a pattern if and only if it has
\* been unseen for 7 or more days (sweep time minus lastUsed >= 7 days) and
\* its frequency is below 5; every other pattern is retained with unchanged
\* statistics.
C17_SweepPrunesAtSevenDays ==
    [][learned'.op = "sweep" =>
          \A i \in 1..Len(patterns) :
              LET pattern == patterns[i]
                  stale == /\ now - pattern.lastUsed >= 7 * 24 * 60 * 60 * 1000
                           /\ pattern.frequency < 5
              IN  /\ stale <=> ~HasKey(patterns', pattern.key)
                  /\ ~stale => /\ HasKey(patterns', pattern.key)
                               /\ patterns'[KeyIndex(patterns', pattern.key)] = pattern]_vars

\* a pattern of the state before the step is missing after it, or has a
\* smaller frequency
LosesFrequency ==
    \E i \in 1..Len(patterns) :
        \/ ~HasKey(patterns', patterns[i].key)
        \/ patterns'[KeyIndex(patterns', patterns[i].key)].frequency < patterns[i].frequency

LastOf(s, n) == IF Len(s) <= n THEN s ELSE SubSeq(s, Len(s) - n + 1, Len(s))

\* C19: after every recordInteraction the history holds at most maxHistorySize
\* entries, and they are exactly the most recent ones, in order: the entries
\* before the call followed by the new one, less the oldest beyond capacity.
C19_HistoryKeepsMostRecent ==
    [][learned'.op = "record" =>
          /\ Len(interactions') <= 1000
          /\ Len(interactions') >= 1
          /\ interactions'[Len(interactions')].timestamp = now
          /\ interactions'[Len(interactions')].query \in
                 { i.query : i \in LearningInteractions }
          /\ SubSeq(interactions', 1, Len(interactions') - 1)
                 = LastOf(interactions, 1000 - 1)]_vars

\* an interaction was recorded into a full history: the history is still
\* full, its oldest entry is gone and the new entry is the last
C19_Witness ==
    /\ learned.op = "record"
    /\ Len(interactions) = 1000
    /\ Recordings = HistoryHeadroom + 1
    /\ interactions[Len(interactions)].query # FillerQuery
    /\ interactions[1].query = FillerQuery

(* Ranking claim *)

\* every element of one sequence occurs as often in the other
SameElements(s, t) ==
    /\ Len(s) = Len(t)
    /\ \A x \in Range(s) \cup Range(t) :
           Cardinality({ i \in 1..Len(s) : s[i] = x })
               = Cardinality({ i \in 1..Len(t) : t[i] = x })

MetricsOf(regs, name) ==
    IF IsRegisteredIn(regs, name)
    THEN regs[CHOOSE i \in 1..Len(regs) : regs[i].name = name].metrics
    ELSE ZeroMetrics

\* C21: a query() that reaches execution and records its interaction feeds
\* the usage back into the registry: the totalRequests of the routed server's
\* registration increases by one.
C21_QueryFeedsRegistryMetrics ==
    [][(/\ queried'.kind = "returns"
        /\ queried'.success
        /\ Len(interactions') = Len(interactions) + 1)
       => MetricsOf(servers', routed'.decision.server).totalRequests
              = MetricsOf(servers, routed'.decision.server).totalRequests + 1]_vars

(* Router claims *)

\* two intents with the same action, the same entities and the same filters,
\* in whatever order
SameUpToOrder(i, j) ==
    /\ i.action = j.action
    /\ SameElements([k \in 1..Len(i.entities) |-> <<i.entities[k].type, i.entities[k].value>>],
                    [k \in 1..Len(j.entities) |-> <<j.entities[k].type, j.entities[k].value>>])
    /\ SameElements(i.filters, j.filters)

\* C22: the cache key is canonical under reordering: when a decision is cached
\* for an intent, a route call for an intent with the same action, the same
\* entities and the same filters in another order is a cache hit.
C22_CacheKeyIsCanonical ==
    [][(/\ routed'.kind = "decision"
        /\ \E j \in ReorderedIntents :
               /\ SameUpToOrder(j, routed'.intent)
               /\ CacheHas(routingCache, GetCacheKey(j)))
       => routed'.hit]_vars

\* C23: recordInteraction saves the snapshot exactly on every 10th recorded
\* interaction and on no other call, never on two consecutive calls, and
\* this goes on unchanged after the history has reached maxHistorySize.
C23_SavesEveryTenth ==
    [][learned'.op = "record" =>
          /\ learned'.saved <=> learned'.recorded % 10 = 0
          /\ (learned.op = "record" /\ learned.saved) => ~learned'.saved]_vars

(* Validation claims *)

\* C24: validateOperation evaluates the business rules registered under the
\* wildcard key "*:action" as well as those under "server:action": a failing
\* wildcard rule of severity error adds its message to errors and makes
\* isValid false, one of severity warning adds a warning.
C24_WildcardRulesApply ==
    validated.kind = "returns" =>
        \A rule \in Range(rules[RuleKey("*", validated.action)]) :
            ~RuleHolds(rule.id, validated.params) =>
                /\ rule.severity = "error" =>
                       /\ SeqContains(validated.errors, rule.message)
                       /\ ~validated.isValid
                /\ rule.severity = "warning" => SeqContains(validated.warnings, rule.message)

\* C25: whenever route() cannot produce a decision it raises a RoutingError
\* whose details carry the intent it was called with, returns no decision, and
\* leaves the decision cache as it was before the call.
C25_RouteFailureIsClean ==
    [][(routed'.kind \notin {"none", "decision"}) =>
          /\ routed'.kind = "RoutingError"
          /\ routed'.details.hasIntent
          /\ routed'.details.intent = routed'.intent
          /\ routed'.decision = NoDecision
          /\ routingCache' = routingCache]_vars

\* a route call found no server while the cache held a decision: it raised
\* with the intent in its details, and the decision is still cached
C25_Witness ==
    /\ routed.kind = "RoutingError"
    /\ routed.error = "Failed to route intent: No servers found for intent"
    /\ routed.details.hasIntent
    /\ routed.details.intent = routed.intent
    /\ routingCache # <<>>

\* the place of a server in the order of registration
RegistrationOrder(name) == CHOOSE i \in 1..Len(servers) : servers[i].name = name

\* C26: in route(), candidates with equal relevance score are ordered by
\* registration order: the primary of a fresh decision is registered before
\* every other candidate with its score, whatever index each was found
\* through.
C26_TiesKeepRegistrationOrder ==
    [][(routed'.kind = "decision" /\ ~routed'.hit) =>
          \A reg \in Range(ExactRegistrations(routed'.intent)) :
              RatEq(Score(reg, routed'.intent),
                    Score(GetServer(routed'.decision.server), routed'.intent))
              => RegistrationOrder(routed'.decision.server) <= RegistrationOrder(reg.name)]_vars

(* Health claim *)

\* the registrations with the one of a name, if any, given a status and a
\* time of its last health check
WithHealth(regs, name, status, checked) ==
    [i \in 1..Len(regs) |->
        IF regs[i].name = name
        THEN [regs[i] EXCEPT !.status = status, !.lastHealthCheck = checked]
        ELSE regs[i]]

Precedes(s, a, b) ==
    \E i \in 1..Len(s) : s[i] = a /\ \A j \in 1..i : s[j] # b

\* C28: in every run of query() the execution engine is invoked only after
\* validateOperation has returned isValid=true for the run's decision, and
\* recordInteraction only after the execution and validateResult; when
\* validateOperation returns isValid=false the run invokes neither, and the
\* history is what it was.
C28_PipelineOrder ==
    [][queried'.kind # "none" =>
          LET run == queried'.stages IN
          /\ SeqContains(run, "execute") =>
                 /\ Precedes(run, "validate", "execute")
                 /\ validated'.kind = "returns"
                 /\ validated'.isValid
          /\ SeqContains(run, "record") =>
                 /\ Precedes(run, "execute", "record")
                 /\ Precedes(run, "validateResult", "record")
          /\ (validated'.kind = "returns" /\ ~validated'.isValid) =>
                 /\ ~SeqContains(run, "execute")
                 /\ ~SeqContains(run, "record")
          /\ SeqContains(run, "record") <=> Len(interactions') = Len(interactions) + 1
          /\ ~SeqContains(run, "record") => interactions' = interactions]_vars

\* a run whose operation was found invalid stopped after validateOperation,
\* with an empty history
C28_Witness ==
    /\ queried.kind = "returns"
    /\ validated.kind = "returns"
    /\ ~validated.isValid
    /\ queried.stages = <<"parse", "route", "validate">>
    /\ interactions = <<>>

(* Tool selection *)

\* the synonyms of an action that a server declares, as places in the
\* action's list of synonyms
DeclaredSynonyms(operations, action) ==
    { i \in 1..Len(PossibleOps(action)) : SeqContains(operations, PossibleOps(action)[i]) }

\* an operation, suffixed with '_' and the type of the intent's first entity
\* when the intent has an entity
Suffixed(op, intent) ==
    IF intent.entities = <<>> THEN op ELSE op \o "_" \o intent.entities[1].type

\* C29: selectTool returns the first synonym in the action's list that the
\* server declares, suffixed with '_' and the type of the intent's first
\* entity when there is one; when the server declares none of the synonyms
\* it returns the server's first declared operation, without a suffix.  So
\* for a server that declares an operation, the operation part of the tool
\* is an operation the server declares.
C29_ToolIsFirstDeclaredSynonym ==
    selected.called =>
        LET declared == DeclaredSynonyms(selected.operations, selected.intent.action)
            first == CHOOSE i \in declared : \A j \in declared : i <= j
        IN  /\ declared # {} =>
                   selected.tool = Suffixed(PossibleOps(selected.intent.action)[first],
                                            selected.intent)
            /\ (declared = {} /\ selected.operations # <<>>) =>
                   selected.tool = selected.operations[1]
            /\ selected.operations # <<>> =>
                   \E op \in Range(selected.operations) :
                       selected.tool \in {op, Suffixed(op, selected.intent)}

\* the server declares query, get and list, in that order, and the tool for
\* a query of jobs is named after list, the first of the synonyms
C29_Witness ==
    /\ selected.called
    /\ selected.operations = <<"query", "get", "list">>
    /\ selected.intent.action = "query"
    /\ selected.intent.entities # <<>>
    /\ selected.tool = "list_job"

LacksPermissionMessage(action) == "User lacks permission for " \o action \o " operation"

\* C30: when context.currentUser is present, validateOperation adds the
\* permission error if and only if the user's role is not admin and the user
\* holds none of the permissions the action requires (create, update: write
\* or admin; delete, sync: admin; query: read, write or admin; any other
\* action: admin); and a user of role tenant always gets an error when the
\* decision's server is propertyware, whatever permissions they hold.
C30_PermissionErrors ==
    (validated.kind = "returns" /\ validated.context.present) =>
        LET user == validated.context
            action == validated.action
            holdsOneOf(perms) == user.permissions \cap perms # {}
            permitted ==
                \/ action \in {"create", "update"} /\ holdsOneOf({"write", "admin"})
                \/ action \in {"delete", "sync"} /\ holdsOneOf({"admin"})
                \/ action = "query" /\ holdsOneOf({"read", "write", "admin"})
                \/ action \notin {"create", "update", "delete", "sync", "query"}
                       /\ holdsOneOf({"admin"})
        IN  /\ SeqContains(validated.errors, LacksPermissionMessage(action))
                   <=> (user.role # "admin" /\ ~permitted)
            /\ (user.role = "tenant" /\ validated.server = "propertyware") =>
                   /\ validated.errors # <<>>
                   /\ ~validated.isValid

\* a tenant holding the admin permission deletes on propertyware: no permission
\* error, and yet the call is refused
C30_Witness ==
    /\ validated.kind = "returns"
    /\ validated.context = User("tenant", {"admin"})
    /\ validated.action = "delete"
    /\ validated.server = "propertyware"
    /\ validated.errors = <<"Tenants cannot access PropertyWare directly">>

----------------------------------------------------------------------------
(* Parsing claim *)

\* the categories, by their place in the precedence, whose pattern occurs in
\* the text
OccurringCategories(text) ==
    { k \in 1..Len(ActionOrder) : MatchesFrom(ActionOrder[k], text, 0) # {} }

\* C31: action extraction is deterministic and follows the fixed precedence
\* in every call: whatever parseIntent calls the processor has served before,
\* the action extracted is the first category, in the order query, create,
\* update, delete, sync, analyze, compare, whose keyword pattern occurs in
\* the normalized text.
C31_ActionFollowsPrecedence ==
    parsed.called =>
        LET occurring == OccurringCategories(parsed.text)
            first == CHOOSE k \in occurring : \A j \in occurring : k <= j
        IN  occurring # {} => parsed.action = ActionOrder[first]

(* Cache key claim *)

\* two intents with the same action, the same entity (type, value) pairs and
\* the same filter triples, in the same order
SameKeyParts(i, j) ==
    /\ i.action = j.action
    /\ [k \in 1..Len(i.entities) |-> <<i.entities[k].type, i.entities[k].value>>]
           = [k \in 1..Len(j.entities) |-> <<j.entities[k].type, j.entities[k].value>>]
    /\ i.filters = j.filters

\* C32: the cache key depends only on the action, the entity (type, value)
\* pairs and the filter triples: a route call that follows a route call which
\* returned a decision, for an intent that differs from the first in
\* context.domain, timeframe or aggregation only, returns the first intent's
\* decision from the cache, with its server and its params, and computes none
\* for the second intent.
C32_KeyIgnoresDomainAndTimeframe ==
    [][(/\ routed.kind = "decision"
        /\ routed'.kind # "none"
        /\ SameKeyParts(routed.intent, routed'.intent))
       => /\ GetCacheKey(routed'.intent) = GetCacheKey(routed.intent)
          /\ routed'.kind = "decision"
          /\ routed'.hit
          /\ routed'.decision = routed.decision
          /\ routingCache' = routingCache]_vars

\* an intent of the property domain, for today and counted, answered with the
\* decision computed for another intent: another server than a fresh route
\* chooses, and params without timeframe and aggregation
C32_Witness ==
    /\ routed.kind = "decision"
    /\ routed.hit
    /\ routed.intent.domain = "property"
    /\ routed.intent.timeframe.relative = "today"
    /\ routed.intent.aggregation = "count"
    /\ routed.decision.params = EmptyParams
    /\ routed.decision.server
           # BuildDecision(RankServersByRelevance(servers, routed.intent), routed.intent).server

\* the errors validatePermissions can add for an action
PermissionMessages(action) ==
    {LacksPermissionMessage(action), "Tenants cannot access PropertyWare directly"}

\* C33: when the caller context has no currentUser, validateOperation makes
\* no permission check: for every action and every server the result holds
\* no permission error, so that the anonymous call is never less permitted
\* than the same call made by an identified user: every error it gets, the
\* identified user's call gets too.
C33_AnonymousSkipsPermissions ==
    (validated.kind = "returns" /\ ~validated.context.present) =>
        /\ Range(validated.errors) \cap PermissionMessages(validated.action) = {}
        /\ \A user \in PermissionUsers \ {NoUser} :
               LET sameCall ==
                       ValidateOperation(
                           [NoDecision EXCEPT !.server = validated.server, !.tool = "tool",
                                              !.params = validated.params],
                           MkIntent(validated.action, <<>>, "none"), user)
               IN  /\ sameCall.kind = "returns"
                   /\ Range(validated.errors) \subseteq Range(sameCall.errors)
                   /\ sameCall.isValid => validated.isValid

\* an anonymous delete on propertyware that is found valid
C33_Witness ==
    /\ validated.kind = "returns"
    /\ ~validated.context.present
    /\ validated.action = "delete"
    /\ validated.server = "propertyware"
    /\ validated.isValid

(* Identifier claim *)

\* an intent with no filter whose field is 'id' and no entity of role filter
\* whose type is 'id'
NamesNoId(intent) ==
    /\ \A i \in 1..Len(intent.filters) : intent.filters[i].field # "id"
    /\ \A i \in 1..Len(intent.entities) :
           ~(intent.entities[i].role = "filter" /\ intent.entities[i].type = "id")

RegistrationIn(regs, name) == regs[CHOOSE i \in 1..Len(regs) : regs[i].name = name]

\* register or markHealthy is called for name
Refreshes(name) ==
    \/ MarkHealthy(name)
    \/ \E capability \in Capabilities : Register(name, capability)

----------------------------------------------------------------------------
(* Server performance claims *)

\* the performance entry of a server (only used when it has one)
PerformanceOf(sp, server) == sp[KeyIndex(sp, server)]

\* the server of the interaction recorded last
RecordedServer(history) == history[Len(history)].server

\* C36: the errorRate increase recordFeedback applies to the routed server
\* does not survive that server's next recorded interaction: after
\* recordInteraction the server's errorRate is
\* 1 - successfulRequests/totalRequests of its counters, whatever feedback
\* moved it before.
C36_RecordingRecomputesErrorRate ==
    [][learned'.op = "record" =>
          LET server == RecordedServer(interactions')
              perf == PerformanceOf(serverPerformance', server)
          IN  /\ HasKey(serverPerformance', server)
              /\ RatEq(perf.errorRate,
                       RatSub(RatInt(1), Rat(perf.successfulRequests, perf.totalRequests)))]_vars

\* an interaction was just recorded for a server whose errorRate feedback had
\* raised, and the errorRate is 0 again
C36_Witness ==
    /\ learned.op = "record"
    /\ \E i \in 1..(Len(interactions) - 1) :
           /\ interactions[i].server = RecordedServer(interactions)
           /\ interactions[i].feedback.given
           /\ ~interactions[i].feedback.helpful
           /\ interactions[i].feedback.correctServer # ""
    /\ RatEq(ErrorRateOf(serverPerformance, RecordedServer(interactions)), RatInt(0))

RECURSIVE SumCounts(_)
SumCounts(pps) == IF pps = <<>> THEN 0 ELSE Head(pps).count + SumCounts(Tail(pps))

\* C37: in every learning state reached through recordInteraction and
\* recordFeedback, each server's performance record has
\* 0 <= successfulRequests <= totalRequests and 0 <= errorRate <= 1, each of
\* its per-pattern entries has count >= 1, and the sum of its per-pattern
\* counts does not exceed its totalRequests.
C37_PerformanceRecordsAreSound ==
    \A i \in 1..Len(serverPerformance) :
        LET perf == serverPerformance[i] IN
        /\ 0 <= perf.successfulRequests
        /\ perf.successfulRequests <= perf.totalRequests
        /\ ~RatLess(perf.errorRate, RatInt(0))
        /\ ~RatLess(RatInt(1), perf.errorRate)
        /\ \A k \in 1..Len(perf.patterns) : perf.patterns[k].count >= 1
        /\ SumCounts(perf.patterns) <= perf.totalRequests

\* feedback has boosted and penalized a server: its counters stand at 2 of 2
\* with one interaction recorded, and its errorRate is 1/10
C37_Witness ==
    /\ learned.op = "feedback"
    /\ learned.applied
    /\ \E i \in 1..Len(serverPerformance) :
           /\ serverPerformance[i].totalRequests = 2
           /\ serverPerformance[i].successfulRequests = 2
           /\ SumCounts(serverPerformance[i].patterns) = 1
           /\ RatEq(serverPerformance[i].errorRate, Rat(1, 10))

----------------------------------------------------------------------------
(* Orchestrator claims *)

\* C38: executeOnServer always terminates: whatever the routing table holds
\* and whichever servers are connected, a call that is under way eventually
\* returns a result or throws the error.
C38_ExecuteOnServerTerminates ==
    (toolCall.status \in {"checking", "awaiting"})
        ~> (toolCall.status \in {"returned", "threw"})

\* a step on which the server manager emits 'server:connected' or
\* 'server:disconnected' to the handlers of an initialized orchestrator
ServerEvent ==
    /\ orchestratorInitialized
    /\ \/ \E name \in {Airtable, Supabase} : IsConnected(name) /\ DisconnectServer(name)
       \/ \E name \in {Airtable, Supabase}, connects \in BOOLEAN :
              IsConnected(name) /\ ReconnectServer(name, <<QueryTool>>, connects)

\* a step on which executeOnServer returns the cached result
CachedAnswer == toolCall.status = "checking" /\ toolCall'.status = "returned"

TableIsCurrent == routingTable = BuildRoutingTable(<<>>, mcpServers)

\* a later server has a tool of the same name
Shadowed(i, toolName) ==
    \E k \in (i + 1)..Len(mcpServers) : \E j \in 1..Len(mcpServers[k].tools) :
        mcpServers[k].tools[j] = toolName

RoutedTo(serverName, toolName) ==
    /\ tableRouted.found
    /\ tableRouted.server = serverName
    /\ tableRouted.tool = toolName

\* C40: for every tool t discovered on a server s when the routing table was
\* built, route(s + '_' + t) returns server s with tool t, and so does
\* route(t) unless a later server has a tool of that name; route returns null
\* for a name that is not in the routing table.
C40_RouteReturnsOriginalTool ==
    (tableRouted.called /\ TableIsCurrent) =>
        /\ \A i \in 1..Len(mcpServers) : \A j \in 1..Len(mcpServers[i].tools) :
               LET s == mcpServers[i].name
                   t == mcpServers[i].tools[j]
               IN  /\ tableRouted.name = Prefixed(s, t) => RoutedTo(s, t)
                   /\ (tableRouted.name = t /\ ~Shadowed(i, t)) => RoutedTo(s, t)
        /\ ~TableHas(routingTable, tableRouted.name) => ~tableRouted.found

============================================================================
